---- MODULE Spec2Model ----
(***************************************************************************)
(* Concurrency and resource-management core of the web_scrape service      *)
(* (src/scrape/web_scrape.py): the admission gate _slot over _CONC_SEM,    *)
(* the token-bucket rate limiter _apply_rate_limit, the session registry   *)
(* (_SESSIONS, _SESSION_EVENTS), the per-session event queues filled by    *)
(* _queue_event and drained by _sse_iter, and the request handlers that    *)
(* use them, and the background cleaner _cleanup_old_frames.               *)
(* Request-handling threads are the processes of Handlers; the /events     *)
(* generators are the processes of Streams; the threads that run the       *)
(* before_request hook are the processes of Callers; the cleaner thread    *)
(* is the process reaper.                                                  *)
(***************************************************************************)
EXTENDS Integers, Sequences, FiniteSets, TLC

(***************************************************************************)
(* Configuration values and model bounds.                                  *)
(***************************************************************************)
\* SCRAPE_MAX_CONCURRENCY (line 372): max(1, int(env)), default 2.
MAX_CONCURRENCY == 2
\* SCRAPE_RATE_LIMIT_RPS (line 374): max(1, int(env)); a small setting.
RATE_LIMIT_RPS == 2
\* SCRAPE_RATE_LIMIT_BURST (line 375): max(1, int(env)); a small setting.
RATE_LIMIT_BURST == 2
\* Queue(maxsize=256) at line 434, scaled down so that overflow is reachable.
QueueMaxsize == 2
\* Number of request-handling threads; each serves one request.
NumHandlers == 3
\* Number of /events streams; each is opened once.
NumStreams == 1
\* Number of /session/start requests that are admitted (uuid4 ids 1..MaxStarts).
MaxStarts == 2
\* Clock ticks per second and the last tick of the rate-limiter clock.
TicksPerSecond == 4
MaxTime == 3
\* Threads running the before_request hook, and calls they make in total.
NumCallers == 2
MaxCalls == 4
\* Distinct client identities (X-Forwarded-For / remote_addr values).
NumIps == 1
\* The clock of the timed service specifications ticks every 5 s; the
\* durations below are in these ticks, and MaxClock is its last tick.
MaxClock == 6
\* SCRAPE_FRAME_KEEPALIVE_S (line 377): max(10, int(env)); set to 10 s.
FRAME_KEEPALIVE_S == 2
\* SCRAPE_FILE_TTL_S (line 376): max(60, int(env)); scaled down to 15 s, so
\* that an idle session comes of age within MaxClock.
FILE_TTL_S == 3
\* q.get(timeout=5.0) at line 800.
GetTimeout == 1
\* _CLEAN_STOP.wait(30.0) at line 539, scaled down to 10 s.
SweepWait == 2
\* Calls the client threads make next to the cleaner (SpecReaper) and next
\* to a stream (SpecStream).
MaxTimedCalls == 2

Handlers == 1..NumHandlers
Streams == 1..NumStreams
Callers == 1..NumCallers
Ips == 1..NumIps

\* "" : the sid of a request that carries none, and the fallback of
\* next(iter(_SESSIONS), "") on an empty registry.
EmptySid == 0
\* A sid no session_start ever issued (a client-invented token).
UnknownSid == MaxStarts + 1
AllSids == 0..UnknownSid

\* No queue object (sid not in _SESSION_EVENTS, or a local not yet bound).
NoQueue == 0

\* The holder of a free lock; the cleaner thread as the holder of a lock
\* (the request threads are the numbers of Handlers).
NoHolder == 0
ReaperThread == NumHandlers + 1

VARIABLES
  CONC_SEM,        \* _CONC_SEM._value: free permits of the BoundedSemaphore
  driver,          \* Tools._driver is not None
  SESSIONS,        \* _SESSIONS: dict in insertion order, a sequence of records
  SESSION_EVENTS,  \* _SESSION_EVENTS: sid -> queue object (NoQueue: absent)
  heap,            \* the Queue objects ever created, by object id
  issued,          \* number of ids session_start has allocated (ids 1..issued)
  handler,         \* per request thread: control point and locals
  stream,          \* per /events generator: control point and locals
  now,             \* time.time(), in ticks (1/TicksPerSecond s for the rate
                   \* limiter, 5 s for the timed service specifications)
  RATE_BUCKETS,    \* _RATE_BUCKETS: ip -> bucket record
  caller,          \* per before_request thread: control point and locals
  calls,           \* history of completed _apply_rate_limit calls, per ip
  reaper,          \* the _cleanup_old_frames thread: control point and locals
  CLEAN_STOP,      \* _CLEAN_STOP.is_set()
  GLOBAL_LOCK,     \* the thread inside a "with _GLOBAL_LOCK" block (NoHolder: free)
  RATE_LOCK        \* the thread inside "with _RATE_LOCK" (NoHolder: free)

svcVars == <<CONC_SEM, driver, SESSIONS, SESSION_EVENTS, heap, issued, handler, stream>>
rateVars == <<RATE_BUCKETS, caller, calls>>
vars == <<CONC_SEM, driver, SESSIONS, SESSION_EVENTS, heap, issued, handler, stream,
          now, RATE_BUCKETS, caller, calls, reaper, CLEAN_STOP, GLOBAL_LOCK, RATE_LOCK>>

Min(a, b) == IF a < b THEN a ELSE b

Max(a, b) == IF a > b THEN a ELSE b

(***************************************************************************)
(* 4) Service state: the admission gate.                                   *)
(***************************************************************************)
\* Mutant of SemCanAcquire: the acquire does not wait at _value == 0.
SemCanAcquireAtZero(v) == v >= 0

\* threading.Semaphore.acquire(timeout): a permit is taken only while
\* _value > 0; it gives up (returns False) only on observing _value == 0.
SemCanAcquire(v) == v > 0

SemAcquire(v) == v - 1

\* BoundedSemaphore.release(): raises ValueError above the initial value,
\* which _Slot.__exit__ swallows.
SemRelease(v) == IF v < MAX_CONCURRENCY THEN v + 1 ELSE v

\* Mutant of SlotExit: the permit is not given back.
SlotExitKeeps(acquired, v) == v

\* _Slot.__exit__: release only when __enter__ acquired.
SlotExit(acquired, v) == IF acquired THEN SemRelease(v) ELSE v

(***************************************************************************)
(* 4) Service state: the session registry.                                 *)
(***************************************************************************)
SessionKeys(S) == {S[i].sid : i \in DOMAIN S}

SessionIndex(S, sid) == CHOOSE i \in DOMAIN S : S[i].sid = sid

NewMeta(sid, t) == [sid |-> sid, created |-> t, last |-> t, frames |-> {}]

\* _SESSIONS.setdefault(sid, {...}); meta["last"] = time.time()
EnsureMeta(S, sid, t) ==
  IF sid \in SessionKeys(S)
    THEN [S EXCEPT ![SessionIndex(S, sid)].last = t]
    ELSE Append(S, NewMeta(sid, t))

\* Mutant of TouchMeta: the session is made when it is missing.
TouchMetaCreates(S, sid, t) == EnsureMeta(S, sid, t)

\* _touch_session: refresh "last" when the session exists, else nothing.
TouchMeta(S, sid, t) ==
  IF sid \in SessionKeys(S)
    THEN [S EXCEPT ![SessionIndex(S, sid)].last = t]
    ELSE S

\* Mutant of RecordFrame: the session is made when it is missing.
RecordFrameCreates(S, sid, fname) ==
  IF sid \in SessionKeys(S)
    THEN [S EXCEPT ![SessionIndex(S, sid)].frames = @ \cup {fname}]
    ELSE Append(S, [NewMeta(sid, 0) EXCEPT !.frames = {fname}])

\* _record_frame_meta: add the frame when the session exists, else nothing.
RecordFrame(S, sid, fname) ==
  IF sid \in SessionKeys(S)
    THEN [S EXCEPT ![SessionIndex(S, sid)].frames = @ \cup {fname}]
    ELSE S

\* next(iter(_SESSIONS), ""): the first key in insertion order.
FirstKey(S) == IF S = <<>> THEN EmptySid ELSE S[1].sid

\* data.get("sid") or next(iter(_SESSIONS), "")
SidOrFirst(sid, S) == IF sid # EmptySid THEN sid ELSE FirstKey(S)

NoEvents == [s \in AllSids |-> NoQueue]

(***************************************************************************)
(* Queue objects.  items is the deque; offered, log, lost and readers      *)
(* record what happened to the object: the events whose first put_nowait   *)
(* was tried, the events put, the number of events _queue_event took out   *)
(* to make room, and the streams that read from it.                        *)
(***************************************************************************)
NewQueue(sid) ==
  [sid |-> sid, items |-> <<>>, offered |-> <<>>, log |-> <<>>, lost |-> 0, readers |-> {}]

\* Queue.put_nowait succeeds unless qsize() >= maxsize (raises Full).
QueueFull(items) == Len(items) >= QueueMaxsize

QueuePut(items, e) == Append(items, e)

\* Queue.get / get_nowait: the head of the deque (popleft).
QueueHead(items) == Head(items)

QueueRest(items) == Tail(items)

\* _ensure_session, under _GLOBAL_LOCK: the queue object it returns, and
\* the registry it leaves (a new Queue only when sid has none).
EnsuredQueue(E, H, sid) == IF E[sid] = NoQueue THEN Len(H) + 1 ELSE E[sid]

EnsuredEvents(E, H, sid) == [E EXCEPT ![sid] = EnsuredQueue(E, H, sid)]

EnsuredHeap(E, H, sid) == IF E[sid] = NoQueue THEN Append(H, NewQueue(sid)) ELSE H

EnsureSession(sid) ==
  /\ SESSIONS' = EnsureMeta(SESSIONS, sid, now)
  /\ SESSION_EVENTS' = EnsuredEvents(SESSION_EVENTS, heap, sid)
  /\ heap' = EnsuredHeap(SESSION_EVENTS, heap, sid)

\* A Queue object nothing refers to any more (not _SESSION_EVENTS, not a
\* local q of _queue_event or _sse_iter) is freed by the interpreter.
FreedQueue == [NewQueue(EmptySid) EXCEPT !.lost = -1]

Referenced(i, E, hs, ss) ==
  \/ \E sid \in AllSids : E[sid] = i
  \/ \E h \in DOMAIN hs : hs[h].q = i
  \/ \E s \in DOMAIN ss : ss[s].q = i

Sweep(H, E, hs, ss) ==
  [i \in DOMAIN H |-> IF Referenced(i, E, hs, ss) THEN H[i] ELSE FreedQueue]

(***************************************************************************)
(* 8) Routes.  A handler thread serves one request: it is "idle", then at  *)
(* the control points below, then "done" with its HTTP status in resp.     *)
(*   slot      waiting in _Slot.__enter__ (_CONC_SEM.acquire)              *)
(*   driver    inside the Tools.* call                                     *)
(*   register  session_start, before "with _GLOBAL_LOCK" (line 588)        *)
(*   clear     session_close, before _clear_sessions() (line 607)          *)
(*   evalsid   before evaluating data.get("sid") or next(iter(...), "")    *)
(*   frame     screenshot, before _record_frame_meta (line 773)            *)
(*   ensure    _queue_event, before _ensure_session (line 457)             *)
(*   put       _queue_event, before the first put_nowait (line 459)        *)
(*   evict     _queue_event, before get_nowait (line 462)                  *)
(*   put2      _queue_event, before the second put_nowait (line 466)       *)
(* ran, pub: the request reached the Tools.* call, called _queue_event.    *)
(* ts: the "ts" of the payload, int(time.time() * 1000), which the handler *)
(* evaluates with the other arguments before it calls _queue_event.        *)
(* turn: where the order of the permits is followed, the number of the     *)
(* grant of _CONC_SEM the request got (1 for the first permit granted).    *)
(* ip, now: the locals of _apply_rate_limit, where the request thread is   *)
(* followed through the before_request hook:                               *)
(*   rate      before "with _RATE_LOCK" (line 487); ip and now are read    *)
(*   bucket    inside "with _RATE_LOCK", before line 488                   *)
(*   route     the hook returned None; the view function is called next    *)
(***************************************************************************)
IdleHandler ==
  [pc |-> "idle", kind |-> "none", sid |-> EmptySid, acquired |-> FALSE, msg |-> "none",
   evsid |-> EmptySid, q |-> NoQueue, resp |-> "none", ran |-> FALSE, pub |-> FALSE,
   ts |-> 0, turn |-> 0, ip |-> 0, now |-> 0]

\* The sid of a request to a handler: none, or an id that was issued (a
\* current or a stale one).
RequestSids == {EmptySid} \cup (1..issued)

\* The sid of a subscription or of a direct _queue_event call: an invented
\* token, or an id that was issued; the direct call may also pass "".
StreamSids == {UnknownSid} \cup (1..issued)

PublishSids == {EmptySid, UnknownSid} \cup (1..issued)

\* The threaded server starts a thread per request; the threads are
\* interchangeable, so a request is given to the lowest-numbered free one.
Arrive(h) ==
  /\ handler[h].pc = "idle"
  /\ \A g \in Handlers : g < h => handler[g].pc # "idle"

Begin(h, kind, sid, pc0) ==
  handler' = [handler EXCEPT ![h] = [IdleHandler EXCEPT !.pc = pc0, !.kind = kind, !.sid = sid]]

\* POST /session/start up to "with _slot()" (uuid4 ids are not reused: at
\* most MaxStarts such requests are admitted).
session_start(h) ==
  /\ Arrive(h)
  /\ issued + Cardinality({g \in Handlers : handler[g].kind = "start"
                                              /\ handler[g].pc \in {"slot", "driver", "register"}})
       < MaxStarts
  /\ Begin(h, "start", EmptySid, "slot")
  /\ UNCHANGED <<CONC_SEM, driver, SESSIONS, SESSION_EVENTS, heap, issued, stream>>

\* POST /session/close up to "with _slot()".
session_close(h) ==
  /\ Arrive(h)
  /\ Begin(h, "close", EmptySid, "slot")
  /\ UNCHANGED <<CONC_SEM, driver, SESSIONS, SESSION_EVENTS, heap, issued, stream>>

\* POST /navigate up to "with _slot()".
navigate(h) ==
  /\ Arrive(h)
  /\ \E sid \in RequestSids : Begin(h, "navigate", sid, "slot")
  /\ UNCHANGED <<CONC_SEM, driver, SESSIONS, SESSION_EVENTS, heap, issued, stream>>

\* POST /click, /type, /scroll up to "with _slot()": the three handlers
\* have the same control flow around Tools.click / Tools.input / Tools.scroll.
click_selector(h) ==
  /\ Arrive(h)
  /\ \E sid \in RequestSids : Begin(h, "click", sid, "slot")
  /\ UNCHANGED <<CONC_SEM, driver, SESSIONS, SESSION_EVENTS, heap, issued, stream>>

\* POST /click_xy up to "with _slot()".
click_xy(h) ==
  /\ Arrive(h)
  /\ \E sid \in RequestSids : Begin(h, "click_xy", sid, "slot")
  /\ UNCHANGED <<CONC_SEM, driver, SESSIONS, SESSION_EVENTS, heap, issued, stream>>

\* GET /screenshot up to "with _slot()": sid is evaluated first (line 760).
screenshot(h) ==
  /\ Arrive(h)
  /\ \E sid \in RequestSids :
       handler' = [handler EXCEPT ![h] =
         [IdleHandler EXCEPT !.pc = "slot", !.kind = "screenshot",
                             !.evsid = SidOrFirst(sid, SESSIONS)]]
  /\ UNCHANGED <<CONC_SEM, driver, SESSIONS, SESSION_EVENTS, heap, issued, stream>>

\* GET /dom up to the call of Tools.get_dom_snapshot: no "with _slot()".
dom_snapshot(h) ==
  /\ Arrive(h)
  /\ \E sid \in RequestSids :
       handler' = [handler EXCEPT ![h] =
         [IdleHandler EXCEPT !.pc = "driver", !.kind = "dom", !.sid = sid, !.ran = TRUE]]
  /\ UNCHANGED <<CONC_SEM, driver, SESSIONS, SESSION_EVENTS, heap, issued, stream>>

\* A finished request: the thread's locals are gone; what stays is the
\* response (for session_start with the id it carries, in evsid), how the
\* Tools.* call ended (msg) and the two marks.
Finish(hr, status) ==
  [IdleHandler EXCEPT !.pc = "done", !.resp = status, !.ran = hr.ran, !.pub = hr.pub,
                      !.msg = hr.msg, !.ts = hr.ts, !.turn = hr.turn,
                      !.evsid = IF hr.kind = "start" /\ status = "ok" THEN hr.evsid
                                ELSE EmptySid]

\* The request thread after _CONC_SEM.acquire returned True.
Entered(hr, turn) ==
  [hr EXCEPT !.pc = "driver", !.acquired = TRUE, !.ran = TRUE, !.turn = turn]

\* _Slot.__enter__: the acquire succeeded; the Tools.* call begins.
SlotEnter(h) ==
  /\ handler[h].pc = "slot"
  /\ SemCanAcquire(CONC_SEM)
  /\ CONC_SEM' = SemAcquire(CONC_SEM)
  /\ handler' = [handler EXCEPT ![h] = Entered(handler[h], 0)]
  /\ UNCHANGED <<driver, SESSIONS, SESSION_EVENTS, heap, issued, stream>>

\* SlotEnter with the grants of the semaphore numbered in their order.
SlotEnterInTurn(h) ==
  /\ handler[h].pc = "slot"
  /\ SemCanAcquire(CONC_SEM)
  /\ CONC_SEM' = SemAcquire(CONC_SEM)
  /\ handler' = [handler EXCEPT ![h] =
       Entered(handler[h], 1 + Cardinality({g \in Handlers : handler[g].ran}))]
  /\ UNCHANGED <<driver, SESSIONS, SESSION_EVENTS, heap, issued, stream>>

\* Mutant of SlotAfterTimeout: __exit__ runs and releases although nothing
\* was acquired.
SlotAfterTimeoutReleases(acquired, v) == SemRelease(v)

\* The slot's state when acquire() returns False and __enter__ raises:
\* the with-body and __exit__ are skipped.
SlotAfterTimeout(acquired, v) == v

\* _Slot.__enter__: the acquire timed out; TimeoutError reaches
\* _timeout_handler, which answers 503.
SlotTimeout(h) ==
  /\ handler[h].pc = "slot"
  /\ ~SemCanAcquire(CONC_SEM)
  /\ CONC_SEM' = SlotAfterTimeout(handler[h].acquired, CONC_SEM)
  /\ handler' = [handler EXCEPT ![h] = Finish(handler[h], "503")]
  /\ UNCHANGED <<driver, SESSIONS, SESSION_EVENTS, heap, issued, stream>>

(***************************************************************************)
(* 2) The Tools.* calls, as far as the handlers see them: how a call can   *)
(* end, given whether Tools._driver is set.                                *)
(*   "ok"     a message that does not start with "Error" (a truthy result) *)
(*   "error"  an "Error ..." message ("" for get_dom_snapshot; a result    *)
(*            without ok for the click_xy script)                          *)
(*   "raise"  the call raises                                              *)
(*   "early"  click_xy returns inside the with-block (no Tools._driver)    *)
(***************************************************************************)
Outcomes(kind, open) ==
  CASE kind = "start"      -> {"ok", "raise"}
    [] kind = "close"      -> {"ok"}
    [] kind = "navigate"   -> IF open THEN {"ok", "raise"} ELSE {"error"}
    [] kind = "click"      -> IF open THEN {"ok", "error"} ELSE {"error"}
    [] kind = "click_xy"   -> IF open THEN {"ok", "error", "raise"} ELSE {"early"}
    [] kind = "screenshot" -> IF open THEN {"ok", "raise"} ELSE {"error"}
    [] kind = "dom"        -> IF open THEN {"ok", "error"} ELSE {"error"}

\* Tools._driver after the call: open_browser(force_new=True) quits the old
\* driver and sets the new one, or leaves None and raises; close_browser
\* sets None; the others leave it.
DriverAfter(kind, out, open) ==
  CASE kind = "start" -> (out = "ok")
    [] kind = "close" -> FALSE
    [] OTHER          -> open

\* Where the handler continues after the with-block (or the bare call).
AfterCall(kind, out) ==
  CASE out = "raise"                        -> "done"
    [] out = "early"                        -> "done"
    [] kind = "start"                       -> "register"
    [] kind = "close"                       -> "clear"
    [] kind = "navigate"                    -> "evalsid"
    [] kind = "screenshot" /\ out = "ok"    -> "frame"
    [] kind \in {"click", "click_xy", "dom"} /\ out = "ok" -> "evalsid"
    [] OTHER                                -> "done"

\* The status of a request that ends at the call: _unhandled answers 500 to
\* an exception, click_xy's early return and an empty DOM answer 409, an
\* "Error" message answers 500.
CallStatus(kind, out) ==
  CASE out = "raise"  -> "500"
    [] out = "early"  -> "409"
    [] kind = "dom"   -> "409"
    [] OTHER          -> "500"

\* The Tools.* call ends and, for the gated handlers, _Slot.__exit__ runs:
\* on a normal return, on an exception and on click_xy's early return.
DriverReturn(h) ==
  /\ handler[h].pc = "driver"
  /\ \E out \in Outcomes(handler[h].kind, driver) :
       /\ driver' = DriverAfter(handler[h].kind, out, driver)
       /\ CONC_SEM' = SlotExit(handler[h].acquired, CONC_SEM)
       /\ handler' = [handler EXCEPT ![h] =
            IF AfterCall(handler[h].kind, out) = "done"
              THEN Finish([handler[h] EXCEPT !.msg = out], CallStatus(handler[h].kind, out))
              ELSE [handler[h] EXCEPT !.pc = AfterCall(handler[h].kind, out),
                                      !.acquired = FALSE, !.msg = out]]
  /\ UNCHANGED <<SESSIONS, SESSION_EVENTS, heap, issued, stream>>

\* session_start lines 587-596: a new uuid; under _GLOBAL_LOCK both maps
\* are cleared and the new session is stored.  _queue_event(sid, ...) follows.
Register(h) ==
  /\ handler[h].pc = "register"
  /\ issued' = issued + 1
  /\ SESSIONS' = <<NewMeta(issued + 1, now)>>
  /\ SESSION_EVENTS' = NoEvents
  /\ handler' = [handler EXCEPT ![h].pc = "ensure", ![h].evsid = issued + 1, ![h].pub = TRUE,
                                ![h].ts = now]
  /\ heap' = Sweep(heap, SESSION_EVENTS', handler', stream)
  /\ UNCHANGED <<CONC_SEM, driver, stream>>

\* session_close line 607: _clear_sessions(), then the response.
ClearSessions(h) ==
  /\ handler[h].pc = "clear"
  /\ SESSIONS' = <<>>
  /\ SESSION_EVENTS' = NoEvents
  /\ handler' = [handler EXCEPT ![h] = Finish(handler[h], "ok")]
  /\ heap' = Sweep(heap, SESSION_EVENTS', handler', stream)
  /\ UNCHANGED <<CONC_SEM, driver, issued, stream>>

\* The arguments of _queue_event are evaluated (lines 621, 639, 658, 672,
\* 724, 742): data.get("sid") or next(iter(_SESSIONS), ""), then the payload
\* with its "ts".
EvalSid(h) ==
  /\ handler[h].pc = "evalsid"
  /\ handler' = [handler EXCEPT ![h].pc = "ensure", ![h].pub = TRUE, ![h].sid = EmptySid,
                                ![h].ts = now,
                                ![h].evsid = SidOrFirst(handler[h].sid, SESSIONS)]
  /\ UNCHANGED <<CONC_SEM, driver, SESSIONS, SESSION_EVENTS, heap, issued, stream>>

\* screenshot line 773: _record_frame_meta(sid, fname, ...); the file name
\* is unique to the request.  _queue_event(sid, ...) follows.
RecordFrameMeta(h) ==
  /\ handler[h].pc = "frame"
  /\ SESSIONS' = RecordFrame(SESSIONS, handler[h].evsid, h)
  /\ handler' = [handler EXCEPT ![h].pc = "ensure", ![h].pub = TRUE, ![h].ts = now]
  /\ UNCHANGED <<CONC_SEM, driver, SESSION_EVENTS, heap, issued, stream>>

(***************************************************************************)
(* _queue_event(sid, payload), lines 456-468.  The payload of the request  *)
(* served by thread h is the event h.                                      *)
(***************************************************************************)
\* q = _ensure_session(sid)
QueueEventEnsure(h) ==
  /\ handler[h].pc = "ensure"
  /\ EnsureSession(handler[h].evsid)
  /\ handler' = [handler EXCEPT ![h].pc = "put",
                                ![h].q = EnsuredQueue(SESSION_EVENTS, heap, handler[h].evsid)]
  /\ UNCHANGED <<CONC_SEM, driver, issued, stream>>

\* The status a handler answers after _queue_event returned.
FinalStatus(hr) == IF hr.kind = "navigate" /\ hr.msg = "error" THEN "500" ELSE "ok"

\* The queue object after put_nowait(e) succeeded.
Enqueued(qr, e) == [qr EXCEPT !.items = QueuePut(qr.items, e), !.log = Append(qr.log, e)]

\* q.put_nowait(payload) at line 459: enqueued, or Full is raised.
QueueEventPut(h) ==
  /\ handler[h].pc = "put"
  /\ LET qr == [heap[handler[h].q] EXCEPT !.offered = Append(@, h)] IN
       IF QueueFull(qr.items)
         THEN /\ heap' = [heap EXCEPT ![handler[h].q] = qr]
              /\ handler' = [handler EXCEPT ![h].pc = "evict"]
         ELSE /\ handler' = [handler EXCEPT ![h] = Finish(handler[h], FinalStatus(handler[h]))]
              /\ heap' = Sweep([heap EXCEPT ![handler[h].q] = Enqueued(qr, h)],
                               SESSION_EVENTS, handler', stream)
  /\ UNCHANGED <<CONC_SEM, driver, SESSIONS, SESSION_EVENTS, issued, stream>>

\* Mutant of Evicted: the newest entry is taken out.
EvictedNewest(qr) ==
  IF qr.items = <<>> THEN qr
  ELSE [qr EXCEPT !.items = SubSeq(qr.items, 1, Len(qr.items) - 1), !.lost = @ + 1]

\* The queue object after get_nowait() in _queue_event: the oldest entry
\* is taken out; Empty is swallowed.
Evicted(qr) ==
  IF qr.items = <<>> THEN qr
  ELSE [qr EXCEPT !.items = QueueRest(qr.items), !.lost = @ + 1]

\* q.get_nowait() at line 462.
QueueEventEvict(h) ==
  /\ handler[h].pc = "evict"
  /\ heap' = [heap EXCEPT ![handler[h].q] = Evicted(heap[handler[h].q])]
  /\ handler' = [handler EXCEPT ![h].pc = "put2"]
  /\ UNCHANGED <<CONC_SEM, driver, SESSIONS, SESSION_EVENTS, issued, stream>>

\* q.put_nowait(payload) at line 466: enqueued, or Full is swallowed and
\* the payload is dropped.
QueueEventPutAgain(h) ==
  /\ handler[h].pc = "put2"
  /\ handler' = [handler EXCEPT ![h] = Finish(handler[h], FinalStatus(handler[h]))]
  /\ heap' = Sweep([heap EXCEPT ![handler[h].q] =
                      IF QueueFull(heap[handler[h].q].items) THEN @ ELSE Enqueued(@, h)],
                   SESSION_EVENTS, handler', stream)
  /\ UNCHANGED <<CONC_SEM, driver, SESSIONS, SESSION_EVENTS, issued, stream>>

(***************************************************************************)
(* GET /events and _sse_iter, lines 794-823.  A stream is "idle", then     *)
(*   iter    events() returned the Response; the generator has not started *)
(*   loop    in q.get(timeout=5.0)                                         *)
(*   yield   suspended at a yield                                          *)
(*   closed  the generator has finished                                    *)
(* deadline is keepalive_deadline, waitFrom the time q.get was entered,    *)
(* last the kind ("data" or "keepalive") and time of the latest yield.     *)
(***************************************************************************)
NoYield == [kind |-> "none", at |-> 0]

IdleStream ==
  [pc |-> "idle", sid |-> EmptySid, q |-> NoQueue, delivered |-> <<>>,
   deadline |-> 0, waitFrom |-> 0, last |-> NoYield]

\* events(): a missing sid is refused (400); _touch_session(sid).
events(s) ==
  /\ stream[s].pc = "idle"
  /\ \E sid \in StreamSids :
       /\ stream' = [stream EXCEPT ![s].pc = "iter", ![s].sid = sid]
       /\ SESSIONS' = TouchMeta(SESSIONS, sid, now)
  /\ UNCHANGED <<CONC_SEM, driver, SESSION_EVENTS, heap, issued, handler>>

\* _sse_iter line 795: q = _ensure_session(sid).
SseStart(s) ==
  /\ stream[s].pc = "iter"
  /\ SESSIONS' = EnsureMeta(SESSIONS, stream[s].sid, now)
  /\ SESSION_EVENTS' = EnsuredEvents(SESSION_EVENTS, heap, stream[s].sid)
  /\ LET qid == EnsuredQueue(SESSION_EVENTS, heap, stream[s].sid) IN
       /\ heap' = [EnsuredHeap(SESSION_EVENTS, heap, stream[s].sid)
                     EXCEPT ![qid].readers = @ \cup {s}]
       /\ stream' = [stream EXCEPT ![s].pc = "loop", ![s].q = qid,
                                   ![s].deadline = now + FRAME_KEEPALIVE_S,
                                   ![s].waitFrom = now]
  /\ UNCHANGED <<CONC_SEM, driver, issued, handler>>

\* Mutant of Received: the stream yields the newest entry.
ReceivedNewest(items) == items[Len(items)]

\* The event q.get returns.
Received(items) == QueueHead(items)

\* payload = q.get(timeout=5.0) returned an event: the deadline is moved
\* (line 801) and the event is yielded.
SseGet(s) ==
  /\ stream[s].pc = "loop"
  /\ heap[stream[s].q].items # <<>>
  /\ stream' = [stream EXCEPT ![s].pc = "yield",
                              ![s].delivered = Append(@, Received(heap[stream[s].q].items)),
                              ![s].deadline = now + FRAME_KEEPALIVE_S,
                              ![s].last = [kind |-> "data", at |-> now]]
  /\ heap' = [heap EXCEPT ![stream[s].q].items = QueueRest(@)]
  /\ UNCHANGED <<CONC_SEM, driver, SESSIONS, SESSION_EVENTS, issued, handler>>

\* Mutant of KeepaliveDue: a keepalive at every Empty.
KeepaliveAlways(t, deadline) == TRUE

\* line 806: if now >= keepalive_deadline
KeepaliveDue(t, deadline) == t >= deadline

\* q.get(timeout=5.0) raised Empty: the queue stayed empty for the timeout.
\* When the deadline has passed it is moved and ":" is yielded (lines
\* 805-808); else the loop goes round.
SseEmpty(s) ==
  /\ stream[s].pc = "loop"
  /\ heap[stream[s].q].items = <<>>
  /\ now >= stream[s].waitFrom + GetTimeout
  /\ stream' = [stream EXCEPT ![s] =
       IF KeepaliveDue(now, stream[s].deadline)
         THEN [stream[s] EXCEPT !.pc = "yield", !.deadline = now + FRAME_KEEPALIVE_S,
                                !.last = [kind |-> "keepalive", at |-> now]]
         ELSE [stream[s] EXCEPT !.waitFrom = now]]
  /\ UNCHANGED <<CONC_SEM, driver, SESSIONS, SESSION_EVENTS, heap, issued, handler>>

\* The consumer asks for the next item: the loop goes round.
SseResume(s) ==
  /\ stream[s].pc = "yield"
  /\ stream' = [stream EXCEPT ![s].pc = "loop", ![s].waitFrom = now]
  /\ UNCHANGED <<CONC_SEM, driver, SESSIONS, SESSION_EVENTS, heap, issued, handler>>

\* The consumer disconnected: GeneratorExit at the yield, break, and the
\* finally clause calls _touch_session(sid).
SseDisconnect(s) ==
  /\ stream[s].pc = "yield"
  /\ stream' = [stream EXCEPT ![s].pc = "closed"]
  /\ SESSIONS' = TouchMeta(SESSIONS, stream[s].sid, now)
  /\ UNCHANGED <<CONC_SEM, driver, SESSION_EVENTS, heap, issued, handler>>

(***************************************************************************)
(* 6) Background cleaners: the thread of _cleanup_old_frames (lines        *)
(* 519-539) and the _CLEAN_STOP event.  The thread is at                   *)
(*   test    the while condition (line 520)                                *)
(*   ids     before _session_ids() (line 530); now was read at line 521    *)
(*   check   the for loop, before _session_meta(sid) for the head of ids   *)
(*   pop     before "with _GLOBAL_LOCK" at line 536, for the session sid   *)
(*   wait    in _CLEAN_STOP.wait(30.0) since waitFrom (line 539)           *)
(*   exited  the loop has ended                                            *)
(* popped records the sids the current sweep has popped.  The frame files  *)
(* of lines 522-529 are not part of the model.                             *)
(***************************************************************************)
IdleReaper ==
  [pc |-> "test", now |-> 0, ids |-> <<>>, sid |-> EmptySid, waitFrom |-> 0, popped |-> {}]

\* line 535: max(FILE_TTL_S, 2 * FRAME_KEEPALIVE_S)
IdleLimit == Max(FILE_TTL_S, 2 * FRAME_KEEPALIVE_S)

\* Mutant of Expired: the limit is the sum of the two, not the larger.
ExpiredAtSum(t, last) == t - last > FILE_TTL_S + 2 * FRAME_KEEPALIVE_S

\* line 535: now - last > max(FILE_TTL_S, 2 * FRAME_KEEPALIVE_S)
Expired(t, last) == t - last > IdleLimit

\* Mutant of StopSeen: the loop does not look at the event.
StopSeenNever(stop) == FALSE

\* line 520: _CLEAN_STOP.is_set()
StopSeen(stop) == stop

\* dict.pop(sid, None) on _SESSIONS.
Popped(S, sid) == SelectSeq(S, LAMBDA m : m.sid # sid)

\* line 520-521: the event is not set; the sweep begins with now = time.time().
ReaperBegin ==
  /\ reaper.pc = "test"
  /\ ~StopSeen(CLEAN_STOP)
  /\ reaper' = [reaper EXCEPT !.pc = "ids", !.now = now]
  /\ UNCHANGED <<svcVars, CLEAN_STOP>>

\* line 520: the event is set; the loop and the thread end.
ReaperExit ==
  /\ reaper.pc = "test"
  /\ StopSeen(CLEAN_STOP)
  /\ reaper' = [IdleReaper EXCEPT !.pc = "exited"]
  /\ UNCHANGED <<svcVars, CLEAN_STOP>>

\* line 530: _session_ids(), the keys of _SESSIONS under _GLOBAL_LOCK.
ReaperIds ==
  /\ reaper.pc = "ids"
  /\ reaper' = [reaper EXCEPT !.pc = "check",
                              !.ids = [i \in DOMAIN SESSIONS |-> SESSIONS[i].sid]]
  /\ UNCHANGED <<svcVars, CLEAN_STOP>>

\* lines 531-535 for the next sid: the session is gone (continue), or its
\* "last" is read and compared with the sweep's now.
ReaperCheck ==
  /\ reaper.pc = "check"
  /\ reaper.ids # <<>>
  /\ LET sid == Head(reaper.ids) IN
       reaper' = [reaper EXCEPT
         !.ids = Tail(@),
         !.sid = IF sid \in SessionKeys(SESSIONS)
                      /\ Expired(reaper.now, SESSIONS[SessionIndex(SESSIONS, sid)].last)
                   THEN sid ELSE EmptySid,
         !.pc = IF sid \in SessionKeys(SESSIONS)
                     /\ Expired(reaper.now, SESSIONS[SessionIndex(SESSIONS, sid)].last)
                  THEN "pop" ELSE "check"]
  /\ UNCHANGED <<svcVars, CLEAN_STOP>>

\* Mutant of PoppedEvents: the queue of the session is left in the map.
PoppedEventsKept(E, sid) == E

\* dict.pop(sid, None) on _SESSION_EVENTS (line 538).
PoppedEvents(E, sid) == [E EXCEPT ![sid] = NoQueue]

\* lines 536-538: under _GLOBAL_LOCK, the session leaves both maps.
ReaperPop ==
  /\ reaper.pc = "pop"
  /\ SESSIONS' = Popped(SESSIONS, reaper.sid)
  /\ SESSION_EVENTS' = PoppedEvents(SESSION_EVENTS, reaper.sid)
  /\ heap' = Sweep(heap, SESSION_EVENTS', handler, stream)
  /\ reaper' = [reaper EXCEPT !.pc = "check", !.sid = EmptySid,
                              !.popped = @ \cup {reaper.sid}]
  /\ UNCHANGED <<CONC_SEM, driver, issued, handler, stream, CLEAN_STOP>>

\* The for loop is over: _CLEAN_STOP.wait(30.0) is entered.
ReaperSleep ==
  /\ reaper.pc = "check"
  /\ reaper.ids = <<>>
  /\ reaper' = [reaper EXCEPT !.pc = "wait", !.waitFrom = now]
  /\ UNCHANGED <<svcVars, CLEAN_STOP>>

\* _CLEAN_STOP.wait(30.0) returns: the event is set, or the time is up.
ReaperWake ==
  /\ reaper.pc = "wait"
  /\ CLEAN_STOP \/ now >= reaper.waitFrom + SweepWait
  /\ reaper' = IdleReaper
  /\ UNCHANGED <<svcVars, CLEAN_STOP>>

\* Any step of the cleaner thread.
ReaperStep ==
  /\ ReaperBegin \/ ReaperExit \/ ReaperIds \/ ReaperCheck \/ ReaperPop \/ ReaperSleep
       \/ ReaperWake
  /\ UNCHANGED <<now, RATE_BUCKETS, caller, calls, GLOBAL_LOCK, RATE_LOCK>>

\* _shutdown_cleanup line 551: _CLEAN_STOP.set().
shutdown_cleanup ==
  /\ ~CLEAN_STOP
  /\ CLEAN_STOP' = TRUE
  /\ UNCHANGED <<svcVars, reaper>>

(***************************************************************************)
(* The service: any number of requests in flight on the handler threads,   *)
(* with the streams reading.  The clock and the rate limiter stand still.  *)
(***************************************************************************)
InitService ==
  /\ CONC_SEM = MAX_CONCURRENCY
  /\ driver = FALSE
  /\ SESSIONS = <<>>
  /\ SESSION_EVENTS = NoEvents
  /\ heap = <<>>
  /\ issued = 0
  /\ handler = [h \in Handlers |-> IdleHandler]
  /\ stream = [s \in Streams |-> IdleStream]

InitRate ==
  /\ now = 0
  /\ RATE_BUCKETS = [ip \in Ips |-> [present |-> FALSE, tokens |-> 0, ts |-> 0]]
  /\ caller = [c \in Callers |-> [pc |-> "idle", ip |-> 0, now |-> 0]]
  /\ calls = [ip \in Ips |-> <<>>]

InitReaper ==
  /\ reaper = IdleReaper
  /\ CLEAN_STOP = FALSE
  /\ GLOBAL_LOCK = NoHolder
  /\ RATE_LOCK = NoHolder

Init == InitService /\ InitRate /\ InitReaper

Next ==
  \/ \E h \in Handlers : session_start(h) /\ UNCHANGED <<now, RATE_BUCKETS, caller, calls, reaper, CLEAN_STOP, GLOBAL_LOCK, RATE_LOCK>>
  \/ \E h \in Handlers : session_close(h) /\ UNCHANGED <<now, RATE_BUCKETS, caller, calls, reaper, CLEAN_STOP, GLOBAL_LOCK, RATE_LOCK>>
  \/ \E h \in Handlers : navigate(h) /\ UNCHANGED <<now, RATE_BUCKETS, caller, calls, reaper, CLEAN_STOP, GLOBAL_LOCK, RATE_LOCK>>
  \/ \E h \in Handlers : click_selector(h) /\ UNCHANGED <<now, RATE_BUCKETS, caller, calls, reaper, CLEAN_STOP, GLOBAL_LOCK, RATE_LOCK>>
  \/ \E h \in Handlers : click_xy(h) /\ UNCHANGED <<now, RATE_BUCKETS, caller, calls, reaper, CLEAN_STOP, GLOBAL_LOCK, RATE_LOCK>>
  \/ \E h \in Handlers : screenshot(h) /\ UNCHANGED <<now, RATE_BUCKETS, caller, calls, reaper, CLEAN_STOP, GLOBAL_LOCK, RATE_LOCK>>
  \/ \E h \in Handlers : dom_snapshot(h) /\ UNCHANGED <<now, RATE_BUCKETS, caller, calls, reaper, CLEAN_STOP, GLOBAL_LOCK, RATE_LOCK>>
  \/ \E h \in Handlers : SlotEnter(h) /\ UNCHANGED <<now, RATE_BUCKETS, caller, calls, reaper, CLEAN_STOP, GLOBAL_LOCK, RATE_LOCK>>
  \/ \E h \in Handlers : SlotTimeout(h) /\ UNCHANGED <<now, RATE_BUCKETS, caller, calls, reaper, CLEAN_STOP, GLOBAL_LOCK, RATE_LOCK>>
  \/ \E h \in Handlers : DriverReturn(h) /\ UNCHANGED <<now, RATE_BUCKETS, caller, calls, reaper, CLEAN_STOP, GLOBAL_LOCK, RATE_LOCK>>
  \/ \E h \in Handlers : Register(h) /\ UNCHANGED <<now, RATE_BUCKETS, caller, calls, reaper, CLEAN_STOP, GLOBAL_LOCK, RATE_LOCK>>
  \/ \E h \in Handlers : ClearSessions(h) /\ UNCHANGED <<now, RATE_BUCKETS, caller, calls, reaper, CLEAN_STOP, GLOBAL_LOCK, RATE_LOCK>>
  \/ \E h \in Handlers : EvalSid(h) /\ UNCHANGED <<now, RATE_BUCKETS, caller, calls, reaper, CLEAN_STOP, GLOBAL_LOCK, RATE_LOCK>>
  \/ \E h \in Handlers : RecordFrameMeta(h) /\ UNCHANGED <<now, RATE_BUCKETS, caller, calls, reaper, CLEAN_STOP, GLOBAL_LOCK, RATE_LOCK>>
  \/ \E h \in Handlers : QueueEventEnsure(h) /\ UNCHANGED <<now, RATE_BUCKETS, caller, calls, reaper, CLEAN_STOP, GLOBAL_LOCK, RATE_LOCK>>
  \/ \E h \in Handlers : QueueEventPut(h) /\ UNCHANGED <<now, RATE_BUCKETS, caller, calls, reaper, CLEAN_STOP, GLOBAL_LOCK, RATE_LOCK>>
  \/ \E h \in Handlers : QueueEventEvict(h) /\ UNCHANGED <<now, RATE_BUCKETS, caller, calls, reaper, CLEAN_STOP, GLOBAL_LOCK, RATE_LOCK>>
  \/ \E h \in Handlers : QueueEventPutAgain(h) /\ UNCHANGED <<now, RATE_BUCKETS, caller, calls, reaper, CLEAN_STOP, GLOBAL_LOCK, RATE_LOCK>>
  \/ \E s \in Streams : events(s) /\ UNCHANGED <<now, RATE_BUCKETS, caller, calls, reaper, CLEAN_STOP, GLOBAL_LOCK, RATE_LOCK>>
  \/ \E s \in Streams : SseStart(s) /\ UNCHANGED <<now, RATE_BUCKETS, caller, calls, reaper, CLEAN_STOP, GLOBAL_LOCK, RATE_LOCK>>
  \/ \E s \in Streams : SseGet(s) /\ UNCHANGED <<now, RATE_BUCKETS, caller, calls, reaper, CLEAN_STOP, GLOBAL_LOCK, RATE_LOCK>>
  \/ \E s \in Streams : SseResume(s) /\ UNCHANGED <<now, RATE_BUCKETS, caller, calls, reaper, CLEAN_STOP, GLOBAL_LOCK, RATE_LOCK>>
  \/ \E s \in Streams : SseDisconnect(s) /\ UNCHANGED <<now, RATE_BUCKETS, caller, calls, reaper, CLEAN_STOP, GLOBAL_LOCK, RATE_LOCK>>

Spec == Init /\ [][Next]_vars

(***************************************************************************)
(* 5) The rate limiter, _apply_rate_limit (lines 483-498).  Time is in     *)
(* ticks of 1/TicksPerSecond s and tokens are in units of 1/TicksPerSecond *)
(* token, so that elapsed * RATE_LIMIT_RPS is exact: one token is          *)
(* TicksPerSecond units and the burst is RATE_LIMIT_BURST * TicksPerSecond *)
(* units.  A caller thread is "idle" or "stamped" (it has read now at line *)
(* 486 and waits for _RATE_LOCK).                                          *)
(***************************************************************************)
OneToken == TicksPerSecond

BurstTokens == RATE_LIMIT_BURST * TicksPerSecond

NoBucket == [present |-> FALSE, tokens |-> 0, ts |-> 0]

\* lines 488-491: the bucket of ip, created full at the first request.
BucketOf(b, t) == IF b.present THEN b ELSE [present |-> TRUE, tokens |-> BurstTokens, ts |-> t]

\* line 492: elapsed = max(0.0, now - bucket["ts"])
Elapsed(b, t) == Max(0, t - b.ts)

\* Mutant of Refilled: the elapsed time is not multiplied by the rate.
RefilledUnscaled(b, t) == Min(BurstTokens, b.tokens + Elapsed(b, t))

\* line 494: tokens = min(burst, bucket["tokens"] + elapsed * RATE_LIMIT_RPS)
Refilled(b, t) == Min(BurstTokens, b.tokens + Elapsed(b, t) * RATE_LIMIT_RPS)

\* Mutant of Denied: the test is tokens <= 1.0.
DeniedAtOne(tokens) == tokens <= OneToken

\* line 495: if tokens < 1.0: answer 429
Denied(tokens) == tokens < OneToken

\* The bucket the call leaves: ts is set at line 493, before the test; the
\* token count is stored at line 497, only when the request is allowed.
BucketAfter(b, t) ==
  LET b0 == BucketOf(b, t) IN
    IF Denied(Refilled(b0, t))
      THEN [b0 EXCEPT !.ts = t]
      ELSE [b0 EXCEPT !.ts = t, !.tokens = Refilled(b0, t) - OneToken]

Allowed(b, t) == ~Denied(Refilled(BucketOf(b, t), t))

CallsMade ==
  Cardinality({c \in Callers : caller[c].pc = "stamped"})
    + Cardinality({<<ip, k>> \in Ips \X (1..MaxCalls) : k <= Len(calls[ip])})

\* lines 485-486: the identity is derived and now = _now() is read.
RateStamp(c) ==
  /\ caller[c].pc = "idle"
  /\ CallsMade < MaxCalls
  /\ \E ip \in Ips : caller' = [caller EXCEPT ![c] = [pc |-> "stamped", ip |-> ip, now |-> now]]
  /\ UNCHANGED <<now, RATE_BUCKETS, calls>>

\* lines 487-498, under _RATE_LOCK.  calls records each call: its now, the
\* verdict, and the stored bucket before and after it.
RateLimit(c) ==
  /\ caller[c].pc = "stamped"
  /\ LET ip == caller[c].ip
         t == caller[c].now
         b == RATE_BUCKETS[ip] IN
       /\ RATE_BUCKETS' = [RATE_BUCKETS EXCEPT ![ip] = BucketAfter(b, t)]
       /\ calls' = [calls EXCEPT ![ip] =
            Append(@, [now |-> t, allowed |-> Allowed(b, t),
                       before |-> b, after |-> BucketAfter(b, t)])]
  /\ caller' = [caller EXCEPT ![c] = [pc |-> "idle", ip |-> 0, now |-> 0]]
  /\ UNCHANGED now

\* time.time() advances.
Tick ==
  /\ now < MaxTime
  /\ now' = now + 1
  /\ UNCHANGED <<RATE_BUCKETS, caller, calls>>

NextRate ==
  \/ \E c \in Callers : RateStamp(c) /\ UNCHANGED <<svcVars, reaper, CLEAN_STOP, GLOBAL_LOCK, RATE_LOCK>>
  \/ \E c \in Callers : RateLimit(c) /\ UNCHANGED <<svcVars, reaper, CLEAN_STOP, GLOBAL_LOCK, RATE_LOCK>>
  \/ Tick /\ UNCHANGED <<svcVars, reaper, CLEAN_STOP, GLOBAL_LOCK, RATE_LOCK>>

SpecRate == Init /\ [][NextRate]_vars

(***************************************************************************)
(* _queue_event and _sse_iter on their own: threads call                   *)
(* _queue_event(sid, payload) one after the other, no stream being open;   *)
(* then streams are opened and read.                                       *)
(***************************************************************************)
NoPublisherRunning == \A h \in Handlers : handler[h].pc \in {"idle", "done"}

NoStreamOpen == \A s \in Streams : stream[s].pc = "idle"

\* A call _queue_event(sid, payload) from thread h.
queue_event(h) ==
  /\ Arrive(h)
  /\ NoPublisherRunning
  /\ NoStreamOpen
  /\ \E sid \in PublishSids :
       handler' = [handler EXCEPT ![h] =
         [IdleHandler EXCEPT !.pc = "ensure", !.kind = "publish", !.evsid = sid, !.pub = TRUE]]
  /\ UNCHANGED <<CONC_SEM, driver, SESSIONS, SESSION_EVENTS, heap, issued, stream>>

NextQueue ==
  \/ \E h \in Handlers : queue_event(h) /\ UNCHANGED <<now, RATE_BUCKETS, caller, calls, reaper, CLEAN_STOP, GLOBAL_LOCK, RATE_LOCK>>
  \/ \E h \in Handlers : QueueEventEnsure(h) /\ UNCHANGED <<now, RATE_BUCKETS, caller, calls, reaper, CLEAN_STOP, GLOBAL_LOCK, RATE_LOCK>>
  \/ \E h \in Handlers : QueueEventPut(h) /\ UNCHANGED <<now, RATE_BUCKETS, caller, calls, reaper, CLEAN_STOP, GLOBAL_LOCK, RATE_LOCK>>
  \/ \E h \in Handlers : QueueEventEvict(h) /\ UNCHANGED <<now, RATE_BUCKETS, caller, calls, reaper, CLEAN_STOP, GLOBAL_LOCK, RATE_LOCK>>
  \/ \E h \in Handlers : QueueEventPutAgain(h) /\ UNCHANGED <<now, RATE_BUCKETS, caller, calls, reaper, CLEAN_STOP, GLOBAL_LOCK, RATE_LOCK>>
  \/ \E s \in Streams : NoPublisherRunning /\ events(s)
                         /\ UNCHANGED <<now, RATE_BUCKETS, caller, calls, reaper, CLEAN_STOP, GLOBAL_LOCK, RATE_LOCK>>
  \/ \E s \in Streams : SseStart(s) /\ UNCHANGED <<now, RATE_BUCKETS, caller, calls, reaper, CLEAN_STOP, GLOBAL_LOCK, RATE_LOCK>>
  \/ \E s \in Streams : SseGet(s) /\ UNCHANGED <<now, RATE_BUCKETS, caller, calls, reaper, CLEAN_STOP, GLOBAL_LOCK, RATE_LOCK>>
  \/ \E s \in Streams : SseResume(s) /\ UNCHANGED <<now, RATE_BUCKETS, caller, calls, reaper, CLEAN_STOP, GLOBAL_LOCK, RATE_LOCK>>
  \/ \E s \in Streams : SseDisconnect(s) /\ UNCHANGED <<now, RATE_BUCKETS, caller, calls, reaper, CLEAN_STOP, GLOBAL_LOCK, RATE_LOCK>>

SpecQueue == Init /\ [][NextQueue]_vars

(***************************************************************************)
(* The registry under the clock: client threads call _queue_event,         *)
(* _touch_session and _record_frame_meta with the sids clients can send,   *)
(* streams subscribe, read, get keepalives and disconnect, the cleaner     *)
(* thread sweeps, and the process may be shut down; time passes.           *)
(***************************************************************************)
TimedCallsLeft ==
  Cardinality({h \in Handlers : handler[h].pc # "idle"}) < MaxTimedCalls

\* A call _queue_event(sid, payload) from thread h, next to whatever runs.
publish(h) ==
  /\ Arrive(h)
  /\ \E sid \in PublishSids :
       handler' = [handler EXCEPT ![h] =
         [IdleHandler EXCEPT !.pc = "ensure", !.kind = "publish", !.evsid = sid, !.pub = TRUE]]
  /\ UNCHANGED <<CONC_SEM, driver, SESSIONS, SESSION_EVENTS, heap, issued, stream>>

\* A call _touch_session(sid) from thread h (lines 438-442).
touch_session(h) ==
  /\ Arrive(h)
  /\ \E sid \in PublishSids :
       /\ SESSIONS' = TouchMeta(SESSIONS, sid, now)
       /\ handler' = [handler EXCEPT ![h] =
            [IdleHandler EXCEPT !.pc = "done", !.kind = "touch", !.evsid = sid]]
  /\ UNCHANGED <<CONC_SEM, driver, SESSION_EVENTS, heap, issued, stream>>

\* A call _record_frame_meta(sid, fname, w, h) from thread h (lines 747-753);
\* the file name is unique to the call.
record_frame_meta(h) ==
  /\ Arrive(h)
  /\ \E sid \in PublishSids :
       /\ SESSIONS' = RecordFrame(SESSIONS, sid, h)
       /\ handler' = [handler EXCEPT ![h] =
            [IdleHandler EXCEPT !.pc = "done", !.kind = "record", !.evsid = sid]]
  /\ UNCHANGED <<CONC_SEM, driver, SESSION_EVENTS, heap, issued, stream>>

\* A call _clear_sessions() from thread h (lines 450-453), as session_close
\* makes it after its with-block.
clear_sessions(h) ==
  /\ Arrive(h)
  /\ Begin(h, "close", EmptySid, "clear")
  /\ UNCHANGED <<CONC_SEM, driver, SESSIONS, SESSION_EVENTS, heap, issued, stream>>

\* time.time() advances by one tick of the service clock.
ClockTick ==
  /\ now < MaxClock
  /\ now' = now + 1
  /\ UNCHANGED <<svcVars, RATE_BUCKETS, caller, calls, reaper, CLEAN_STOP, GLOBAL_LOCK, RATE_LOCK>>

NextReaper ==
  \/ \E h \in Handlers : TimedCallsLeft /\ publish(h) /\ UNCHANGED <<now, RATE_BUCKETS, caller, calls, reaper, CLEAN_STOP, GLOBAL_LOCK, RATE_LOCK>>
  \/ \E h \in Handlers : TimedCallsLeft /\ touch_session(h) /\ UNCHANGED <<now, RATE_BUCKETS, caller, calls, reaper, CLEAN_STOP, GLOBAL_LOCK, RATE_LOCK>>
  \/ \E h \in Handlers : TimedCallsLeft /\ record_frame_meta(h) /\ UNCHANGED <<now, RATE_BUCKETS, caller, calls, reaper, CLEAN_STOP, GLOBAL_LOCK, RATE_LOCK>>
  \/ \E h \in Handlers : QueueEventEnsure(h) /\ UNCHANGED <<now, RATE_BUCKETS, caller, calls, reaper, CLEAN_STOP, GLOBAL_LOCK, RATE_LOCK>>
  \/ \E h \in Handlers : QueueEventPut(h) /\ UNCHANGED <<now, RATE_BUCKETS, caller, calls, reaper, CLEAN_STOP, GLOBAL_LOCK, RATE_LOCK>>
  \/ ReaperBegin /\ UNCHANGED <<now, RATE_BUCKETS, caller, calls, GLOBAL_LOCK, RATE_LOCK>>
  \/ ReaperExit /\ UNCHANGED <<now, RATE_BUCKETS, caller, calls, GLOBAL_LOCK, RATE_LOCK>>
  \/ ReaperIds /\ UNCHANGED <<now, RATE_BUCKETS, caller, calls, GLOBAL_LOCK, RATE_LOCK>>
  \/ ReaperCheck /\ UNCHANGED <<now, RATE_BUCKETS, caller, calls, GLOBAL_LOCK, RATE_LOCK>>
  \/ ReaperPop /\ UNCHANGED <<now, RATE_BUCKETS, caller, calls, GLOBAL_LOCK, RATE_LOCK>>
  \/ ReaperSleep /\ UNCHANGED <<now, RATE_BUCKETS, caller, calls, GLOBAL_LOCK, RATE_LOCK>>
  \/ ReaperWake /\ UNCHANGED <<now, RATE_BUCKETS, caller, calls, GLOBAL_LOCK, RATE_LOCK>>
  \/ shutdown_cleanup /\ UNCHANGED <<now, RATE_BUCKETS, caller, calls, GLOBAL_LOCK, RATE_LOCK>>
  \/ ClockTick

SpecReaper == Init /\ [][NextReaper]_vars

\* The cleaner is a thread of its own and never waits for a lock that is
\* held for long: the scheduler lets it run whenever it can take a step.
SpecReaperFair == Init /\ [][NextReaper]_vars /\ WF_vars(ReaperStep)

\* The registry functions alone: threads call _queue_event, _touch_session,
\* _record_frame_meta and _clear_sessions while time passes.
NextRegistry ==
  \/ \E h \in Handlers : publish(h) /\ UNCHANGED <<now, RATE_BUCKETS, caller, calls, reaper, CLEAN_STOP, GLOBAL_LOCK, RATE_LOCK>>
  \/ \E h \in Handlers : touch_session(h) /\ UNCHANGED <<now, RATE_BUCKETS, caller, calls, reaper, CLEAN_STOP, GLOBAL_LOCK, RATE_LOCK>>
  \/ \E h \in Handlers : record_frame_meta(h) /\ UNCHANGED <<now, RATE_BUCKETS, caller, calls, reaper, CLEAN_STOP, GLOBAL_LOCK, RATE_LOCK>>
  \/ \E h \in Handlers : clear_sessions(h) /\ UNCHANGED <<now, RATE_BUCKETS, caller, calls, reaper, CLEAN_STOP, GLOBAL_LOCK, RATE_LOCK>>
  \/ \E h \in Handlers : ClearSessions(h) /\ UNCHANGED <<now, RATE_BUCKETS, caller, calls, reaper, CLEAN_STOP, GLOBAL_LOCK, RATE_LOCK>>
  \/ \E h \in Handlers : QueueEventEnsure(h) /\ UNCHANGED <<now, RATE_BUCKETS, caller, calls, reaper, CLEAN_STOP, GLOBAL_LOCK, RATE_LOCK>>
  \/ \E h \in Handlers : QueueEventPut(h) /\ UNCHANGED <<now, RATE_BUCKETS, caller, calls, reaper, CLEAN_STOP, GLOBAL_LOCK, RATE_LOCK>>
  \/ ClockTick

SpecRegistry == Init /\ [][NextRegistry]_vars

\* Concurrent _queue_event calls on a session whose queue already holds k
\* events (0 <= k <= capacity) of requests that are over; those events are
\* numbered NumHandlers + 1 .. NumHandlers + k, oldest first.
Earlier(k) == [j \in 1..k |-> NumHandlers + j]

InitPublish ==
  /\ CONC_SEM = MAX_CONCURRENCY
  /\ driver = FALSE
  /\ issued = 0
  /\ handler = [h \in Handlers |-> IdleHandler]
  /\ stream = [s \in Streams |-> IdleStream]
  /\ \E sid \in {EmptySid, UnknownSid} : \E k \in 0..QueueMaxsize :
       /\ SESSIONS = <<NewMeta(sid, 0)>>
       /\ SESSION_EVENTS = [NoEvents EXCEPT ![sid] = 1]
       /\ heap = <<[NewQueue(sid) EXCEPT !.items = Earlier(k), !.offered = Earlier(k),
                                          !.log = Earlier(k)]>>
  /\ InitRate
  /\ InitReaper

NextPublish ==
  \/ \E h \in Handlers : publish(h) /\ UNCHANGED <<now, RATE_BUCKETS, caller, calls, reaper, CLEAN_STOP, GLOBAL_LOCK, RATE_LOCK>>
  \/ \E h \in Handlers : QueueEventEnsure(h) /\ UNCHANGED <<now, RATE_BUCKETS, caller, calls, reaper, CLEAN_STOP, GLOBAL_LOCK, RATE_LOCK>>
  \/ \E h \in Handlers : QueueEventPut(h) /\ UNCHANGED <<now, RATE_BUCKETS, caller, calls, reaper, CLEAN_STOP, GLOBAL_LOCK, RATE_LOCK>>
  \/ \E h \in Handlers : QueueEventEvict(h) /\ UNCHANGED <<now, RATE_BUCKETS, caller, calls, reaper, CLEAN_STOP, GLOBAL_LOCK, RATE_LOCK>>
  \/ \E h \in Handlers : QueueEventPutAgain(h) /\ UNCHANGED <<now, RATE_BUCKETS, caller, calls, reaper, CLEAN_STOP, GLOBAL_LOCK, RATE_LOCK>>

SpecPublish == InitPublish /\ [][NextPublish]_vars

NextStream ==
  \/ \E h \in Handlers : TimedCallsLeft /\ publish(h) /\ UNCHANGED <<now, RATE_BUCKETS, caller, calls, reaper, CLEAN_STOP, GLOBAL_LOCK, RATE_LOCK>>
  \/ \E h \in Handlers : TimedCallsLeft /\ clear_sessions(h) /\ UNCHANGED <<now, RATE_BUCKETS, caller, calls, reaper, CLEAN_STOP, GLOBAL_LOCK, RATE_LOCK>>
  \/ \E h \in Handlers : ClearSessions(h) /\ UNCHANGED <<now, RATE_BUCKETS, caller, calls, reaper, CLEAN_STOP, GLOBAL_LOCK, RATE_LOCK>>
  \/ \E h \in Handlers : QueueEventEnsure(h) /\ UNCHANGED <<now, RATE_BUCKETS, caller, calls, reaper, CLEAN_STOP, GLOBAL_LOCK, RATE_LOCK>>
  \/ \E h \in Handlers : QueueEventPut(h) /\ UNCHANGED <<now, RATE_BUCKETS, caller, calls, reaper, CLEAN_STOP, GLOBAL_LOCK, RATE_LOCK>>
  \/ \E s \in Streams : events(s) /\ UNCHANGED <<now, RATE_BUCKETS, caller, calls, reaper, CLEAN_STOP, GLOBAL_LOCK, RATE_LOCK>>
  \/ \E s \in Streams : SseStart(s) /\ UNCHANGED <<now, RATE_BUCKETS, caller, calls, reaper, CLEAN_STOP, GLOBAL_LOCK, RATE_LOCK>>
  \/ \E s \in Streams : SseGet(s) /\ UNCHANGED <<now, RATE_BUCKETS, caller, calls, reaper, CLEAN_STOP, GLOBAL_LOCK, RATE_LOCK>>
  \/ \E s \in Streams : SseEmpty(s) /\ UNCHANGED <<now, RATE_BUCKETS, caller, calls, reaper, CLEAN_STOP, GLOBAL_LOCK, RATE_LOCK>>
  \/ \E s \in Streams : SseResume(s) /\ UNCHANGED <<now, RATE_BUCKETS, caller, calls, reaper, CLEAN_STOP, GLOBAL_LOCK, RATE_LOCK>>
  \/ \E s \in Streams : SseDisconnect(s) /\ UNCHANGED <<now, RATE_BUCKETS, caller, calls, reaper, CLEAN_STOP, GLOBAL_LOCK, RATE_LOCK>>
  \/ ClockTick

SpecStream == Init /\ [][NextStream]_vars

(***************************************************************************)
(* The status events of concurrent handlers: a session has been started,   *)
(* and handler threads whose Tools.click call has returned "ok" evaluate   *)
(* the arguments of _queue_event and call it, while time passes.           *)
(***************************************************************************)
\* click_selector after its with-block, lines 637-639: the message is ok
\* and the call of _queue_event is next.
click_result_ok(h) ==
  /\ Arrive(h)
  /\ \E sid \in RequestSids :
       handler' = [handler EXCEPT ![h] =
         [IdleHandler EXCEPT !.pc = "evalsid", !.kind = "click", !.sid = sid,
                             !.msg = "ok", !.ran = TRUE]]
  /\ UNCHANGED <<CONC_SEM, driver, SESSIONS, SESSION_EVENTS, heap, issued, stream>>

InitStamp ==
  /\ CONC_SEM = MAX_CONCURRENCY
  /\ driver = TRUE
  /\ SESSIONS = <<NewMeta(1, 0)>>
  /\ SESSION_EVENTS = NoEvents
  /\ heap = <<>>
  /\ issued = 1
  /\ handler = [h \in Handlers |-> IdleHandler]
  /\ stream = [s \in Streams |-> IdleStream]
  /\ InitRate
  /\ InitReaper

NextStamp ==
  \/ \E h \in Handlers : click_result_ok(h) /\ UNCHANGED <<now, RATE_BUCKETS, caller, calls, reaper, CLEAN_STOP, GLOBAL_LOCK, RATE_LOCK>>
  \/ \E h \in Handlers : EvalSid(h) /\ UNCHANGED <<now, RATE_BUCKETS, caller, calls, reaper, CLEAN_STOP, GLOBAL_LOCK, RATE_LOCK>>
  \/ \E h \in Handlers : QueueEventEnsure(h) /\ UNCHANGED <<now, RATE_BUCKETS, caller, calls, reaper, CLEAN_STOP, GLOBAL_LOCK, RATE_LOCK>>
  \/ \E h \in Handlers : QueueEventPut(h) /\ UNCHANGED <<now, RATE_BUCKETS, caller, calls, reaper, CLEAN_STOP, GLOBAL_LOCK, RATE_LOCK>>
  \/ \E h \in Handlers : QueueEventEvict(h) /\ UNCHANGED <<now, RATE_BUCKETS, caller, calls, reaper, CLEAN_STOP, GLOBAL_LOCK, RATE_LOCK>>
  \/ \E h \in Handlers : QueueEventPutAgain(h) /\ UNCHANGED <<now, RATE_BUCKETS, caller, calls, reaper, CLEAN_STOP, GLOBAL_LOCK, RATE_LOCK>>
  \/ ClockTick

SpecStamp == InitStamp /\ [][NextStamp]_vars

(***************************************************************************)
(* The three ways a session leaves the registry, side by side: threads     *)
(* that are past open_browser in session_start register a new session,     *)
(* threads call _clear_sessions as session_close does and _queue_event as  *)
(* every handler does, and the cleaner thread sweeps; time passes.         *)
(***************************************************************************)
\* session_start after its with-block, line 587: open_browser returned.
browser_opened(h) ==
  /\ Arrive(h)
  /\ issued + Cardinality({g \in Handlers : handler[g].pc = "register"}) < MaxStarts
  /\ handler' = [handler EXCEPT ![h] =
       [IdleHandler EXCEPT !.pc = "register", !.kind = "start", !.msg = "ok", !.ran = TRUE]]
  /\ UNCHANGED <<CONC_SEM, driver, SESSIONS, SESSION_EVENTS, heap, issued, stream>>

NextLockstep ==
  \/ \E h \in Handlers : TimedCallsLeft /\ browser_opened(h) /\ UNCHANGED <<now, RATE_BUCKETS, caller, calls, reaper, CLEAN_STOP, GLOBAL_LOCK, RATE_LOCK>>
  \/ \E h \in Handlers : TimedCallsLeft /\ clear_sessions(h) /\ UNCHANGED <<now, RATE_BUCKETS, caller, calls, reaper, CLEAN_STOP, GLOBAL_LOCK, RATE_LOCK>>
  \/ \E h \in Handlers : TimedCallsLeft /\ publish(h) /\ UNCHANGED <<now, RATE_BUCKETS, caller, calls, reaper, CLEAN_STOP, GLOBAL_LOCK, RATE_LOCK>>
  \/ \E h \in Handlers : Register(h) /\ UNCHANGED <<now, RATE_BUCKETS, caller, calls, reaper, CLEAN_STOP, GLOBAL_LOCK, RATE_LOCK>>
  \/ \E h \in Handlers : ClearSessions(h) /\ UNCHANGED <<now, RATE_BUCKETS, caller, calls, reaper, CLEAN_STOP, GLOBAL_LOCK, RATE_LOCK>>
  \/ \E h \in Handlers : QueueEventEnsure(h) /\ UNCHANGED <<now, RATE_BUCKETS, caller, calls, reaper, CLEAN_STOP, GLOBAL_LOCK, RATE_LOCK>>
  \/ \E h \in Handlers : QueueEventPut(h) /\ UNCHANGED <<now, RATE_BUCKETS, caller, calls, reaper, CLEAN_STOP, GLOBAL_LOCK, RATE_LOCK>>
  \/ ReaperBegin /\ UNCHANGED <<now, RATE_BUCKETS, caller, calls, GLOBAL_LOCK, RATE_LOCK>>
  \/ ReaperExit /\ UNCHANGED <<now, RATE_BUCKETS, caller, calls, GLOBAL_LOCK, RATE_LOCK>>
  \/ ReaperIds /\ UNCHANGED <<now, RATE_BUCKETS, caller, calls, GLOBAL_LOCK, RATE_LOCK>>
  \/ ReaperCheck /\ UNCHANGED <<now, RATE_BUCKETS, caller, calls, GLOBAL_LOCK, RATE_LOCK>>
  \/ ReaperPop /\ UNCHANGED <<now, RATE_BUCKETS, caller, calls, GLOBAL_LOCK, RATE_LOCK>>
  \/ ReaperSleep /\ UNCHANGED <<now, RATE_BUCKETS, caller, calls, GLOBAL_LOCK, RATE_LOCK>>
  \/ ReaperWake /\ UNCHANGED <<now, RATE_BUCKETS, caller, calls, GLOBAL_LOCK, RATE_LOCK>>
  \/ shutdown_cleanup /\ UNCHANGED <<now, RATE_BUCKETS, caller, calls, GLOBAL_LOCK, RATE_LOCK>>
  \/ ClockTick

SpecLockstep == Init /\ [][NextLockstep]_vars

(***************************************************************************)
(* The locks, made explicit: a request thread runs the before_request hook *)
(* and then its view function, and the cleaner thread sweeps; every "with  *)
(* _RATE_LOCK" and "with _GLOBAL_LOCK" block is entered in a step of its   *)
(* own, which waits while another thread is inside the lock, and is left   *)
(* by the step that runs its body.  The service is looked at at time       *)
(* MaxClock: a session was started at time 0 and has not been used since   *)
(* (its queue was never asked for), and a /click request admitted at time  *)
(* 0 is still inside its Tools.click call; both requests took a token.     *)
(***************************************************************************)
\* time.time() of the service clock in the rate limiter's ticks: a tick of
\* the service clock is 5 s.
RateTime(t) == t * 5 * TicksPerSecond

\* _apply_rate_limit lines 485-486: the identity and now = _now().
apply_rate_limit(h) ==
  /\ Arrive(h)
  /\ \E ip \in Ips :
       handler' = [handler EXCEPT ![h] = [IdleHandler EXCEPT !.pc = "rate", !.ip = ip,
                                                             !.now = now]]
  /\ UNCHANGED <<CONC_SEM, driver, SESSIONS, SESSION_EVENTS, heap, issued, stream>>

\* line 487: "with _RATE_LOCK" is entered.
RateLockAcquire(h) ==
  /\ handler[h].pc = "rate"
  /\ RATE_LOCK = NoHolder
  /\ RATE_LOCK' = h
  /\ handler' = [handler EXCEPT ![h].pc = "bucket"]
  /\ UNCHANGED <<CONC_SEM, driver, SESSIONS, SESSION_EVENTS, heap, issued, stream>>

\* lines 488-497 and the end of the with-block: the request is answered 429
\* or goes on to its view function.
RateLockedBody(h) ==
  /\ handler[h].pc = "bucket"
  /\ RATE_LOCK = h
  /\ RATE_LOCK' = NoHolder
  /\ LET b == RATE_BUCKETS[handler[h].ip]
         t == RateTime(handler[h].now) IN
       /\ RATE_BUCKETS' = [RATE_BUCKETS EXCEPT ![handler[h].ip] = BucketAfter(b, t)]
       /\ handler' = [handler EXCEPT ![h] =
            IF Allowed(b, t) THEN [IdleHandler EXCEPT !.pc = "route"]
            ELSE Finish(handler[h], "429")]
  /\ UNCHANGED <<CONC_SEM, driver, SESSIONS, SESSION_EVENTS, heap, issued, stream>>

\* The view function is called: session_start, session_close,
\* click_selector or screenshot, up to "with _slot()".
Dispatch(h) ==
  /\ handler[h].pc = "route"
  /\ \/ /\ issued + Cardinality({g \in Handlers : handler[g].kind = "start"
                                   /\ handler[g].pc \in {"slot", "driver", "register"}})
            < MaxStarts
        /\ Begin(h, "start", EmptySid, "slot")
     \/ Begin(h, "close", EmptySid, "slot")
     \/ \E sid \in RequestSids : Begin(h, "click", sid, "slot")
     \/ \E sid \in RequestSids :
          handler' = [handler EXCEPT ![h] =
            [IdleHandler EXCEPT !.pc = "slot", !.kind = "screenshot",
                                !.evsid = SidOrFirst(sid, SESSIONS)]]
  /\ UNCHANGED <<CONC_SEM, driver, SESSIONS, SESSION_EVENTS, heap, issued, stream>>

\* Mutant of LockPoints: session_start enters _GLOBAL_LOCK before "with
\* _slot()".
LockPointsAroundSlot == {"slot", "register", "clear", "frame", "ensure"}

\* The control points of a request thread right before a "with
\* _GLOBAL_LOCK" block: lines 588, 451 (_clear_sessions), 748
\* (_record_frame_meta), 422 (_ensure_session).
LockPoints == {"register", "clear", "frame", "ensure"}

\* A request thread enters "with _GLOBAL_LOCK".
GlobalLockAcquire(h) ==
  /\ handler[h].pc \in LockPoints
  /\ GLOBAL_LOCK = NoHolder
  /\ GLOBAL_LOCK' = h
  /\ UNCHANGED <<svcVars, now, RATE_BUCKETS, caller, calls, reaper, CLEAN_STOP, RATE_LOCK>>

\* The cleaner thread enters "with _GLOBAL_LOCK": in _session_ids (line
\* 446), in _session_meta (line 417), at line 536.
ReaperLockAcquire ==
  /\ reaper.pc \in {"ids", "pop"} \/ (reaper.pc = "check" /\ reaper.ids # <<>>)
  /\ GLOBAL_LOCK = NoHolder
  /\ GLOBAL_LOCK' = ReaperThread
  /\ UNCHANGED <<svcVars, now, RATE_BUCKETS, caller, calls, reaper, CLEAN_STOP, RATE_LOCK>>

InitLocks ==
  /\ CONC_SEM = SemAcquire(MAX_CONCURRENCY)
  /\ driver = TRUE
  /\ SESSIONS = <<NewMeta(1, 0)>>
  /\ SESSION_EVENTS = NoEvents
  /\ heap = <<>>
  /\ issued = 1
  /\ handler = [h \in Handlers |->
                  IF h = 1 THEN [IdleHandler EXCEPT !.pc = "driver", !.kind = "click",
                                                    !.acquired = TRUE, !.ran = TRUE]
                  ELSE IdleHandler]
  /\ stream = [s \in Streams |-> IdleStream]
  /\ now = MaxClock
  /\ RATE_BUCKETS = [ip \in Ips |-> [present |-> TRUE,
                                       tokens |-> BurstTokens - 2 * OneToken, ts |-> 0]]
  /\ caller = [c \in Callers |-> [pc |-> "idle", ip |-> 0, now |-> 0]]
  /\ calls = [ip \in Ips |-> <<>>]
  /\ InitReaper

NextLocks ==
  \/ \E h \in Handlers : apply_rate_limit(h) /\ UNCHANGED <<now, RATE_BUCKETS, caller, calls, reaper, CLEAN_STOP, GLOBAL_LOCK, RATE_LOCK>>
  \/ \E h \in Handlers : RateLockAcquire(h)
                           /\ UNCHANGED <<now, RATE_BUCKETS, caller, calls, reaper, CLEAN_STOP, GLOBAL_LOCK>>
  \/ \E h \in Handlers : RateLockedBody(h)
                           /\ UNCHANGED <<now, caller, calls, reaper, CLEAN_STOP, GLOBAL_LOCK>>
  \/ \E h \in Handlers : Dispatch(h) /\ UNCHANGED <<now, RATE_BUCKETS, caller, calls, reaper, CLEAN_STOP, GLOBAL_LOCK, RATE_LOCK>>
  \/ \E h \in Handlers : SlotEnter(h) /\ UNCHANGED <<now, RATE_BUCKETS, caller, calls, reaper, CLEAN_STOP, GLOBAL_LOCK, RATE_LOCK>>
  \/ \E h \in Handlers : SlotTimeout(h) /\ UNCHANGED <<now, RATE_BUCKETS, caller, calls, reaper, CLEAN_STOP, GLOBAL_LOCK, RATE_LOCK>>
  \/ \E h \in Handlers : DriverReturn(h) /\ UNCHANGED <<now, RATE_BUCKETS, caller, calls, reaper, CLEAN_STOP, GLOBAL_LOCK, RATE_LOCK>>
  \/ \E h \in Handlers : GlobalLockAcquire(h)
  \/ \E h \in Handlers : GLOBAL_LOCK = h /\ Register(h) /\ GLOBAL_LOCK' = NoHolder
                           /\ UNCHANGED <<now, RATE_BUCKETS, caller, calls, reaper, CLEAN_STOP, RATE_LOCK>>
  \/ \E h \in Handlers : GLOBAL_LOCK = h /\ ClearSessions(h) /\ GLOBAL_LOCK' = NoHolder
                           /\ UNCHANGED <<now, RATE_BUCKETS, caller, calls, reaper, CLEAN_STOP, RATE_LOCK>>
  \/ \E h \in Handlers : GLOBAL_LOCK = h /\ RecordFrameMeta(h) /\ GLOBAL_LOCK' = NoHolder
                           /\ UNCHANGED <<now, RATE_BUCKETS, caller, calls, reaper, CLEAN_STOP, RATE_LOCK>>
  \/ \E h \in Handlers : GLOBAL_LOCK = h /\ QueueEventEnsure(h) /\ GLOBAL_LOCK' = NoHolder
                           /\ UNCHANGED <<now, RATE_BUCKETS, caller, calls, reaper, CLEAN_STOP, RATE_LOCK>>
  \/ \E h \in Handlers : EvalSid(h) /\ UNCHANGED <<now, RATE_BUCKETS, caller, calls, reaper, CLEAN_STOP, GLOBAL_LOCK, RATE_LOCK>>
  \/ \E h \in Handlers : QueueEventPut(h) /\ UNCHANGED <<now, RATE_BUCKETS, caller, calls, reaper, CLEAN_STOP, GLOBAL_LOCK, RATE_LOCK>>
  \/ \E h \in Handlers : QueueEventEvict(h) /\ UNCHANGED <<now, RATE_BUCKETS, caller, calls, reaper, CLEAN_STOP, GLOBAL_LOCK, RATE_LOCK>>
  \/ \E h \in Handlers : QueueEventPutAgain(h) /\ UNCHANGED <<now, RATE_BUCKETS, caller, calls, reaper, CLEAN_STOP, GLOBAL_LOCK, RATE_LOCK>>
  \/ ReaperBegin /\ UNCHANGED <<now, RATE_BUCKETS, caller, calls, GLOBAL_LOCK, RATE_LOCK>>
  \/ ReaperExit /\ UNCHANGED <<now, RATE_BUCKETS, caller, calls, GLOBAL_LOCK, RATE_LOCK>>
  \/ ReaperLockAcquire
  \/ GLOBAL_LOCK = ReaperThread /\ ReaperIds /\ GLOBAL_LOCK' = NoHolder
       /\ UNCHANGED <<now, RATE_BUCKETS, caller, calls, RATE_LOCK>>
  \/ GLOBAL_LOCK = ReaperThread /\ ReaperCheck /\ GLOBAL_LOCK' = NoHolder
       /\ UNCHANGED <<now, RATE_BUCKETS, caller, calls, RATE_LOCK>>
  \/ GLOBAL_LOCK = ReaperThread /\ ReaperPop /\ GLOBAL_LOCK' = NoHolder
       /\ UNCHANGED <<now, RATE_BUCKETS, caller, calls, RATE_LOCK>>
  \/ ReaperSleep /\ UNCHANGED <<now, RATE_BUCKETS, caller, calls, GLOBAL_LOCK, RATE_LOCK>>
  \/ ReaperWake /\ UNCHANGED <<now, RATE_BUCKETS, caller, calls, GLOBAL_LOCK, RATE_LOCK>>
  \/ shutdown_cleanup /\ UNCHANGED <<now, RATE_BUCKETS, caller, calls, GLOBAL_LOCK, RATE_LOCK>>

SpecLocks == InitLocks /\ [][NextLocks]_vars

(***************************************************************************)
(* The service with SCRAPE_MAX_CONCURRENCY = 1: _CONC_SEM starts with one  *)
(* permit, and a release always follows an acquire, so that the value     *)
(* stays within 0..1.  A session has been started; request threads serve   *)
(* /navigate, /click (/type, /scroll) and /click_xy requests.              *)
(***************************************************************************)
InitSerial ==
  /\ CONC_SEM = 1
  /\ driver = TRUE
  /\ SESSIONS = <<NewMeta(1, 0)>>
  /\ SESSION_EVENTS = NoEvents
  /\ heap = <<>>
  /\ issued = 1
  /\ handler = [h \in Handlers |-> IdleHandler]
  /\ stream = [s \in Streams |-> IdleStream]
  /\ InitRate
  /\ InitReaper

NextSerial ==
  \/ \E h \in Handlers : navigate(h) /\ UNCHANGED <<now, RATE_BUCKETS, caller, calls, reaper, CLEAN_STOP, GLOBAL_LOCK, RATE_LOCK>>
  \/ \E h \in Handlers : click_selector(h) /\ UNCHANGED <<now, RATE_BUCKETS, caller, calls, reaper, CLEAN_STOP, GLOBAL_LOCK, RATE_LOCK>>
  \/ \E h \in Handlers : click_xy(h) /\ UNCHANGED <<now, RATE_BUCKETS, caller, calls, reaper, CLEAN_STOP, GLOBAL_LOCK, RATE_LOCK>>
  \/ \E h \in Handlers : SlotEnterInTurn(h) /\ UNCHANGED <<now, RATE_BUCKETS, caller, calls, reaper, CLEAN_STOP, GLOBAL_LOCK, RATE_LOCK>>
  \/ \E h \in Handlers : SlotTimeout(h) /\ UNCHANGED <<now, RATE_BUCKETS, caller, calls, reaper, CLEAN_STOP, GLOBAL_LOCK, RATE_LOCK>>
  \/ \E h \in Handlers : DriverReturn(h) /\ UNCHANGED <<now, RATE_BUCKETS, caller, calls, reaper, CLEAN_STOP, GLOBAL_LOCK, RATE_LOCK>>
  \/ \E h \in Handlers : EvalSid(h) /\ UNCHANGED <<now, RATE_BUCKETS, caller, calls, reaper, CLEAN_STOP, GLOBAL_LOCK, RATE_LOCK>>
  \/ \E h \in Handlers : QueueEventEnsure(h) /\ UNCHANGED <<now, RATE_BUCKETS, caller, calls, reaper, CLEAN_STOP, GLOBAL_LOCK, RATE_LOCK>>
  \/ \E h \in Handlers : QueueEventPut(h) /\ UNCHANGED <<now, RATE_BUCKETS, caller, calls, reaper, CLEAN_STOP, GLOBAL_LOCK, RATE_LOCK>>
  \/ \E h \in Handlers : QueueEventEvict(h) /\ UNCHANGED <<now, RATE_BUCKETS, caller, calls, reaper, CLEAN_STOP, GLOBAL_LOCK, RATE_LOCK>>
  \/ \E h \in Handlers : QueueEventPutAgain(h) /\ UNCHANGED <<now, RATE_BUCKETS, caller, calls, reaper, CLEAN_STOP, GLOBAL_LOCK, RATE_LOCK>>

SpecSerial == InitSerial /\ [][NextSerial]_vars

(***************************************************************************)
(* Properties of the admission gate.                                       *)
(***************************************************************************)
\* The handlers between a successful acquire in _Slot.__enter__ and the
\* release in _Slot.__exit__.
Holders == {h \in Handlers : handler[h].acquired}

InDriver == {h \in Handlers : handler[h].pc = "driver"}

\* C1: at most MAX_CONCURRENCY gated handlers are ever between a successful
\* _slot acquire and its release, i.e. inside the Driver call.
C1_AdmissionBound ==
  /\ Cardinality(Holders) <= MAX_CONCURRENCY
  /\ Cardinality({h \in InDriver : handler[h].acquired}) <= MAX_CONCURRENCY

\* The gate is full and one more request waits for it.
C1_Witness ==
  /\ Cardinality({h \in InDriver : handler[h].acquired}) = MAX_CONCURRENCY
  /\ \E h \in Handlers : handler[h].pc = "slot"

\* C2: a handler whose acquire obtains no permit ends with the 503 of
\* _timeout_handler, never entered the with-block, published nothing, and
\* leaves the semaphore, the registry and the queues as they were; 503 is
\* answered to nothing else.
C2_TimeoutFailsFast ==
  [][\A h \in Handlers :
       /\ (handler[h].pc = "slot" /\ handler'[h].pc # "slot" /\ ~handler'[h].acquired)
            => /\ handler'[h].pc = "done"
               /\ handler'[h].resp = "503"
               /\ ~handler'[h].ran
               /\ ~handler'[h].pub
               /\ CONC_SEM = 0
               /\ CONC_SEM' = CONC_SEM
               /\ UNCHANGED <<driver, SESSIONS, SESSION_EVENTS, heap>>
       /\ (handler'[h].resp = "503" /\ handler[h].resp # "503")
            => handler[h].pc = "slot" /\ ~handler[h].acquired]_vars

\* A request was refused with 503 while the gate was full.
C2_Witness ==
  /\ \E h \in Handlers : handler[h].resp = "503" /\ ~handler[h].ran /\ ~handler[h].pub
  /\ CONC_SEM = 0

\* C3: the free-slot count is MAX_CONCURRENCY minus the number of holders,
\* so it stays within 0..MAX_CONCURRENCY; a handler holds a permit only
\* inside the with-block, whatever way the block is left; with no request
\* in flight the count is MAX_CONCURRENCY again.
C3_PermitConservation ==
  /\ CONC_SEM = MAX_CONCURRENCY - Cardinality(Holders)
  /\ CONC_SEM \in 0..MAX_CONCURRENCY
  /\ \A h \in Handlers : handler[h].acquired => handler[h].pc = "driver"
  /\ (\A h \in Handlers : handler[h].pc \in {"idle", "done"}) => CONC_SEM = MAX_CONCURRENCY

\* All requests are over, the with-block having been left by click_xy's
\* early return, by an exception and by a normal return.
C3_Witness ==
  /\ \A h \in Handlers : handler[h].pc = "done"
  /\ \E h \in Handlers : handler[h].msg = "early" /\ handler[h].resp = "409"
  /\ \E h \in Handlers : handler[h].msg = "raise" /\ handler[h].resp = "500"
  /\ \E h \in Handlers : handler[h].msg \in {"ok", "error"} /\ handler[h].ran
  /\ CONC_SEM = MAX_CONCURRENCY

\* C4: no handler is inside a Tools.* call without holding a permit.
C4_DriverOnlyUnderPermit ==
  \A h \in Handlers : handler[h].pc = "driver" => handler[h].acquired

(***************************************************************************)
(* Properties of the rate limiter.                                         *)
(***************************************************************************)
\* The first k calls of an identity all carry the same now.
SameInstant(cs, k) == \A j \in 1..k : cs[j].now = cs[1].now

\* C5: of RATE_LIMIT_BURST + 1 requests an identity without a bucket makes
\* at one instant, the first RATE_LIMIT_BURST are allowed and the next
\* one is denied.
C5_BurstThenDeny ==
  \A ip \in Ips : \A k \in 1..Len(calls[ip]) :
    (k <= RATE_LIMIT_BURST + 1 /\ SameInstant(calls[ip], k))
      => (calls[ip][k].allowed <=> k <= RATE_LIMIT_BURST)

C5_Witness ==
  \E ip \in Ips :
    /\ Len(calls[ip]) >= RATE_LIMIT_BURST + 1
    /\ SameInstant(calls[ip], RATE_LIMIT_BURST + 1)
    /\ ~calls[ip][RATE_LIMIT_BURST + 1].allowed
    /\ \A k \in 1..RATE_LIMIT_BURST : calls[ip][k].allowed

\* Call k of the history cs comes at least 1/RATE_LIMIT_RPS s after call k-1.
Spaced(cs, k) == (cs[k].now - cs[k - 1].now) * RATE_LIMIT_RPS >= TicksPerSecond

\* C6: a request that comes at least 1/RATE_LIMIT_RPS s after the
\* identity's previous request (or is its first) is never denied, whatever
\* the bucket held.
C6_PacedNeverDenied ==
  \A ip \in Ips : \A k \in 1..Len(calls[ip]) :
    (k = 1 \/ Spaced(calls[ip], k)) => calls[ip][k].allowed

\* A paced request is allowed although the one before it was denied and
\* left less than one token.
C6_Witness ==
  \E ip \in Ips : \E k \in 2..Len(calls[ip]) :
    /\ Spaced(calls[ip], k)
    /\ ~calls[ip][k - 1].allowed
    /\ calls[ip][k].before.tokens < OneToken
    /\ calls[ip][k].allowed

\* C7: a denied call leaves the stored bucket (tokens and ts) as it was.
C7_DeniedLeavesBucket ==
  \A ip \in Ips : \A k \in 1..Len(calls[ip]) :
    ~calls[ip][k].allowed => calls[ip][k].after = calls[ip][k].before

(***************************************************************************)
(* Properties of the registry and the event queues.                        *)
(***************************************************************************)
\* C8: when session_start returns id A, no id issued before A is in
\* _SESSIONS or _SESSION_EVENTS.
C8_StartLeavesNoOldSession ==
  [][\A h \in Handlers :
       (handler[h].kind = "start" /\ handler'[h].pc = "done" /\ handler'[h].resp = "ok")
         => \A B \in 1..(handler'[h].evsid - 1) :
              /\ B \notin SessionKeys(SESSIONS')
              /\ SESSION_EVENTS'[B] = NoQueue]_vars

RECURSIVE IsSubseq(_, _)
IsSubseq(a, b) ==
  IF a = <<>> THEN TRUE
  ELSE IF b = <<>> THEN FALSE
  ELSE IF Head(a) = Head(b) THEN IsSubseq(Tail(a), Tail(b))
  ELSE IsSubseq(a, Tail(b))

\* C9: what a stream has delivered is a subsequence of what was put into
\* its queue, in the order of the puts; when nothing was evicted, the
\* queue is drained and the stream is its only reader, it is exactly that.
C9_DeliveredInPublishOrder ==
  \A s \in Streams : stream[s].q # NoQueue =>
    LET qr == heap[stream[s].q] IN
      /\ IsSubseq(stream[s].delivered, qr.log)
      /\ (qr.lost = 0 /\ qr.items = <<>> /\ qr.readers = {s}) => stream[s].delivered = qr.log

\* Three events were published without overflow and drained, in order.
C9_Witness ==
  \E s \in Streams :
    /\ stream[s].q # NoQueue
    /\ Len(stream[s].delivered) = 3
    /\ heap[stream[s].q].lost = 0
    /\ heap[stream[s].q].items = <<>>
    /\ stream[s].delivered = heap[stream[s].q].log

\* C10: with one publisher at a time and no stream open, QueueMaxsize + 1
\* events published to a session and then drained come out as the last
\* QueueMaxsize of them, in publish order; no queue is ever longer than
\* QueueMaxsize.
C10_DropOldest ==
  /\ \A i \in DOMAIN heap : Len(heap[i].items) <= QueueMaxsize
  /\ \A s \in Streams : stream[s].q # NoQueue =>
       LET qr == heap[stream[s].q] IN
         (Len(qr.offered) = QueueMaxsize + 1 /\ qr.items = <<>> /\ qr.readers = {s})
           => stream[s].delivered = Tail(qr.offered)

C10_Witness ==
  \E s \in Streams :
    /\ stream[s].q # NoQueue
    /\ Len(heap[stream[s].q].offered) = QueueMaxsize + 1
    /\ heap[stream[s].q].items = <<>>
    /\ Len(stream[s].delivered) = QueueMaxsize
    /\ stream[s].delivered = Tail(heap[stream[s].q].offered)

(***************************************************************************)
(* Properties of the cleaner thread.                                       *)
(***************************************************************************)
\* C11: when a sweep is complete, no session whose "last" is more than
\* max(FILE_TTL_S, 2 * FRAME_KEEPALIVE_S) before the sweep's now is left in
\* _SESSIONS, and _SESSION_EVENTS has no queue for an id without a session.
\* ("last" only grows and a touch during the sweep stores a time that is
\* not before the sweep's now: a session left with such an old "last" would
\* be one that was that old at the sweep's start and untouched since.)
C11_SweepEvictsIdle ==
  reaper.pc = "wait" =>
    /\ \A i \in DOMAIN SESSIONS :
         reaper.now - SESSIONS[i].last <= Max(FILE_TTL_S, 2 * FRAME_KEEPALIVE_S)
    /\ \A sid \in AllSids : SESSION_EVENTS[sid] # NoQueue => sid \in SessionKeys(SESSIONS)

\* A sweep is complete that popped an idle session and kept another one.
C11_Witness ==
  /\ reaper.pc = "wait"
  /\ reaper.popped # {}
  /\ \A sid \in reaper.popped :
       sid \notin SessionKeys(SESSIONS) /\ SESSION_EVENTS[sid] = NoQueue
  /\ SESSIONS # <<>>

\* C12: the session the cleaner pops has, at the pop, a "last" that is
\* more than max(FILE_TTL_S, 2 * FRAME_KEEPALIVE_S) before the sweep's now.
C12_PopOnlyIdle ==
  [][(reaper.pc = "pop" /\ reaper'.pc # "pop" /\ reaper.sid \in SessionKeys(SESSIONS))
       => reaper.now - SESSIONS[SessionIndex(SESSIONS, reaper.sid)].last
            > Max(FILE_TTL_S, 2 * FRAME_KEEPALIVE_S)]_vars

\* C16: once _CLEAN_STOP is set the cleaner thread ends, whether it is in
\* a sweep or in the wait, and without the wait's time having to pass (the
\* wait returns as soon as the event is set); no sweep begins while the
\* event is set, the thread ends only when it is set, and nothing runs
\* after the end.
C16_ReaperStops ==
  /\ CLEAN_STOP ~> (reaper.pc = "exited")
  /\ []((CLEAN_STOP /\ reaper.pc = "wait") => ENABLED ReaperWake)
  /\ []((reaper.pc = "exited") => CLEAN_STOP)
  /\ [][(reaper.pc = "test" /\ reaper'.pc = "ids") => ~CLEAN_STOP]_vars
  /\ [][(reaper.pc = "exited") => (reaper' = reaper)]_vars

\* The thread has ended after a sweep that popped nothing of what is there.
C16_Witness ==
  /\ reaper.pc = "exited"
  /\ CLEAN_STOP
  /\ SESSIONS # <<>>
  /\ now > 0

(***************************************************************************)
(* Properties of the streams.                                              *)
(***************************************************************************)
\* C13: a stream yields a keepalive only when q.get found no event and the
\* deadline has passed, that is, not less than FRAME_KEEPALIVE_S after the
\* stream began and after its latest yield (an event or a keepalive), and
\* the deadline then becomes now + FRAME_KEEPALIVE_S; an Empty after the
\* deadline always yields one; an event moves the deadline the same way.
C13_KeepaliveCadence ==
  [][\A s \in Streams :
       /\ (stream[s].pc = "loop" /\ stream'[s].pc = "yield"
             /\ stream'[s].last.kind = "keepalive")
            => /\ heap[stream[s].q].items = <<>>
               /\ now >= stream[s].deadline
               /\ stream[s].last.kind # "none"
                    => now - stream[s].last.at >= FRAME_KEEPALIVE_S
               /\ stream'[s].deadline = now + FRAME_KEEPALIVE_S
               /\ stream'[s].delivered = stream[s].delivered
       /\ (stream[s].pc = "loop" /\ stream'[s].pc = "loop" /\ stream'[s] # stream[s])
            => now < stream[s].deadline
       /\ (stream[s].pc = "loop" /\ stream'[s].pc = "yield"
             /\ stream'[s].last.kind = "data")
            => stream'[s].deadline = now + FRAME_KEEPALIVE_S]_vars

\* A keepalive is being yielded FRAME_KEEPALIVE_S or more after an event.
C13_Witness ==
  \E s \in Streams :
    /\ stream[s].pc = "yield"
    /\ stream[s].last.kind = "keepalive"
    /\ stream[s].delivered # <<>>
    /\ stream[s].last.at >= 2 * FRAME_KEEPALIVE_S

\* C14: when no publisher is running and a subscriber of sid waits in
\* q.get with its queue drained, no event published to sid since the
\* subscription began is left undelivered: no queue made for sid after the
\* subscriber's own, and read by no stream, holds an event.
C14_SubscriberGetsPublished ==
  \A s \in Streams :
    (stream[s].pc = "loop" /\ heap[stream[s].q].items = <<>> /\ NoPublisherRunning)
      => \A i \in DOMAIN heap :
           (i > stream[s].q /\ heap[i].sid = stream[s].sid /\ heap[i].readers = {})
             => heap[i].items = <<>>

\* C15: a disconnect is seen at a yield; it ends the generator, stores the
\* current time as "last" of the stream's session when that session is in
\* _SESSIONS, and changes nothing else: the ids in _SESSIONS, the other
\* fields and sessions, _SESSION_EVENTS and the queues stay as they were.
C15_DisconnectTouchesOnly ==
  [][\A s \in Streams :
       (stream[s].pc # "closed" /\ stream'[s].pc = "closed")
         => /\ stream[s].pc = "yield"
            /\ Len(SESSIONS') = Len(SESSIONS)
            /\ \A i \in DOMAIN SESSIONS :
                 SESSIONS'[i] = IF SESSIONS[i].sid = stream[s].sid
                                  THEN [SESSIONS[i] EXCEPT !.last = now]
                                  ELSE SESSIONS[i]
            /\ SESSION_EVENTS' = SESSION_EVENTS
            /\ heap' = heap]_vars

\* A stream has disconnected later than its session was made, and the
\* session's "last" is the time of the disconnect.
C15_Witness ==
  \E s \in Streams : \E i \in DOMAIN SESSIONS :
    /\ stream[s].pc = "closed"
    /\ SESSIONS[i].sid = stream[s].sid
    /\ SESSIONS[i].last = now
    /\ SESSIONS[i].created < now
    /\ stream[s].last.at < now

(***************************************************************************)
(* Properties of the registry's contents.                                  *)
(***************************************************************************)
\* C17: _SESSIONS never holds two ids at once.
C17_AtMostOneSession == Cardinality(SessionKeys(SESSIONS)) <= 1

\* C18: every id in _SESSIONS, and every id with a queue in _SESSION_EVENTS,
\* is one that session_start allocated.
C18_OnlyStartCreates ==
  /\ SessionKeys(SESSIONS) \subseteq 1..issued
  /\ \A sid \in AllSids : SESSION_EVENTS[sid] # NoQueue => sid \in 1..issued

\* C19: a call of _touch_session or _record_frame_meta returns normally and
\* leaves _SESSION_EVENTS, the queues and the ids of _SESSIONS as they
\* were; with an id that is not in _SESSIONS it changes nothing at all;
\* with an id that is, _touch_session changes only that session's "last"
\* (to the current time) and _record_frame_meta only that session's frames
\* (it adds the file).
C19_TouchAndRecordFrame ==
  [][\A h \in Handlers :
       /\ (handler[h].pc = "idle" /\ handler'[h].kind = "touch")
            => /\ handler'[h].pc = "done"
               /\ SESSION_EVENTS' = SESSION_EVENTS /\ heap' = heap
               /\ Len(SESSIONS') = Len(SESSIONS)
               /\ \A i \in DOMAIN SESSIONS :
                    SESSIONS'[i] = IF SESSIONS[i].sid = handler'[h].evsid
                                     THEN [SESSIONS[i] EXCEPT !.last = now]
                                     ELSE SESSIONS[i]
       /\ (handler[h].pc = "idle" /\ handler'[h].kind = "record")
            => /\ handler'[h].pc = "done"
               /\ SESSION_EVENTS' = SESSION_EVENTS /\ heap' = heap
               /\ Len(SESSIONS') = Len(SESSIONS)
               /\ \A i \in DOMAIN SESSIONS :
                    SESSIONS'[i] = IF SESSIONS[i].sid = handler'[h].evsid
                                     THEN [SESSIONS[i] EXCEPT !.frames = @ \cup {h}]
                                     ELSE SESSIONS[i]]_vars

\* _touch_session was called with an id that had no session, later
\* _record_frame_meta with the id of a session made before the call: the
\* first left the registry empty, the second added its file and nothing else.
C19_Witness ==
  \E h, g \in Handlers : \E i \in DOMAIN SESSIONS :
    /\ handler[h].kind = "touch"
    /\ handler[g].kind = "record"
    /\ SESSIONS[i].sid = handler[g].evsid
    /\ SESSIONS[i].sid # handler[h].evsid
    /\ SESSIONS[i].frames = {g}
    /\ SESSIONS[i].created = SESSIONS[i].last
    /\ SESSIONS[i].last < now
    /\ Len(SESSIONS) = 1

\* C20: when a _queue_event call returns, its event is in the queue it
\* wrote to; its get_nowait takes out nothing but the head, and one entry
\* at most.
C20_OverflowDropsOldestOnly ==
  [][\A h \in Handlers :
       /\ (handler[h].pc \in {"put", "put2"} /\ handler'[h].pc = "done")
            => \E j \in DOMAIN heap'[handler[h].q].items :
                 heap'[handler[h].q].items[j] = h
       /\ (handler[h].pc = "evict" /\ handler'[h].pc # "evict")
            => \/ heap[handler[h].q].items # <<>>
                    /\ heap'[handler[h].q].items = Tail(heap[handler[h].q].items)
               \/ heap[handler[h].q].items = <<>>
                    /\ heap'[handler[h].q].items = <<>>]_vars

(***************************************************************************)
(* Properties of the event timestamps.                                     *)
(***************************************************************************)
\* C21: in every queue the events carry non-decreasing timestamps from
\* head to tail, however the handlers that stamped and enqueued them
\* interleave.  (Refuted: a handler reads the clock while it evaluates the
\* arguments, another one stamps later and enqueues first.)
C21_TimestampsNonDecreasing ==
  \A i \in DOMAIN heap : \A j, k \in DOMAIN heap[i].items :
    j < k => handler[heap[i].items[j]].ts <= handler[heap[i].items[k]].ts

(***************************************************************************)
(* Properties of the two registry maps.                                    *)
(***************************************************************************)
\* C22: _SESSIONS and _SESSION_EVENTS stay in lockstep: in every state
\* every id with a queue in _SESSION_EVENTS is an id of _SESSIONS.  Every
\* step that removes a session (the clear of session_start, the clear of
\* session_close, the pop of the cleaner) therefore removes its queue in
\* that same step: a queue left behind would be a state that breaks this.
C22_QueuesOnlyOfSessions ==
  \A sid \in AllSids : SESSION_EVENTS[sid] # NoQueue => sid \in SessionKeys(SESSIONS)

\* The cleaner has popped a session and its queue is freed, a
\* session_start has registered its session over an earlier one, and a
\* session that has a queue is in the registry.
C22_Witness ==
  /\ reaper.popped # {}
  /\ \E i \in DOMAIN heap : heap[i] = FreedQueue
  /\ \E h \in Handlers : handler[h].kind = "none" /\ handler[h].pc = "done"
                          /\ handler[h].evsid > 1
  /\ \E sid \in AllSids : SESSION_EVENTS[sid] # NoQueue

(***************************************************************************)
(* Properties of the locks.                                                *)
(***************************************************************************)
\* C23: no lock is held across a Driver call: a thread that is inside a
\* Tools.* call, or waits in the acquire of _slot, is inside neither
\* _GLOBAL_LOCK nor _RATE_LOCK; and the cleaner thread never takes a
\* permit of _CONC_SEM: every permit that is out is held by a request
\* thread between its acquire and its release.
C23_NoLockAcrossDriver ==
  /\ \A h \in Handlers :
       handler[h].pc \in {"slot", "driver"} => GLOBAL_LOCK # h /\ RATE_LOCK # h
  /\ CONC_SEM + Cardinality(Holders) = MAX_CONCURRENCY

\* A request thread is inside its Tools.* call and another one waits for a
\* permit, while the cleaner is inside _GLOBAL_LOCK and a third request
\* thread is inside _RATE_LOCK.
C23_Witness ==
  /\ \E h \in Handlers : handler[h].pc = "driver"
  /\ \E h \in Handlers : handler[h].pc = "slot"
  /\ GLOBAL_LOCK = ReaperThread
  /\ RATE_LOCK \in Handlers

(***************************************************************************)
(* The rate limiter against a reference token bucket.                      *)
(***************************************************************************)
\* The reference bucket after the first k calls of the history cs: full
\* before the first call; at a call the tokens available are
\* min(burst, tokens left after the last allowed call + rate * the time
\* since that call); an allowed call takes one token and becomes the last
\* allowed call, a denied call changes nothing.
RECURSIVE RefBucket(_, _)
RefBucket(cs, k) ==
  IF k = 0 THEN [tokens |-> BurstTokens, ts |-> 0]
  ELSE LET prev  == RefBucket(cs, k - 1)
           avail == Min(BurstTokens,
                        prev.tokens + Max(0, cs[k].now - prev.ts) * RATE_LIMIT_RPS) IN
         IF avail >= OneToken THEN [tokens |-> avail - OneToken, ts |-> cs[k].now]
         ELSE prev

RefAllowed(cs, k) ==
  LET prev == RefBucket(cs, k - 1) IN
    Min(BurstTokens, prev.tokens + Max(0, cs[k].now - prev.ts) * RATE_LIMIT_RPS) >= OneToken

\* C24: the rate limiter gives every call the verdict of the reference
\* token bucket with continuous refill, whose tokens do not depend on the
\* denied calls in between: a denied identity is allowed again as soon as
\* one token of refill has accumulated since its last allowed call, even
\* if it keeps calling.  (Refuted: a denied call moves the stored ts and
\* the refill accrued so far is lost.)
C24_RefinesReferenceBucket ==
  \A ip \in Ips : \A k \in 1..Len(calls[ip]) :
    calls[ip][k].allowed = RefAllowed(calls[ip], k)

(***************************************************************************)
(* Properties of session_start next to session_close.                      *)
(***************************************************************************)
\* A finished session_start that answered ok (with the id evsid), and a
\* finished session_close (the one request that ran a Tools.* call and
\* answered ok without calling _queue_event).
StartDone(h) ==
  handler[h].pc = "done" /\ handler[h].resp = "ok" /\ handler[h].evsid # EmptySid

CloseDone(h) ==
  /\ handler[h].pc = "done" /\ handler[h].resp = "ok"
  /\ handler[h].ran /\ ~handler[h].pub

\* C25: session_start and session_close are atomic with respect to each
\* other: when one start and one close, and nothing else, have run in any
\* interleaving and both are over, either the browser is open and the id
\* the start returned is in _SESSIONS, or the browser is closed and
\* _SESSIONS is empty.  (Refuted: the Tools.* call and the registry update
\* of each handler are separate steps.)
C25_StartCloseAtomic ==
  \A a, b \in Handlers :
    ( /\ StartDone(a) /\ CloseDone(b)
      /\ \A g \in Handlers \ {a, b} : handler[g].pc = "idle"
      /\ NoStreamOpen )
    => \/ driver /\ handler[a].evsid \in SessionKeys(SESSIONS)
       \/ ~driver /\ SESSIONS = <<>>

(***************************************************************************)
(* Properties of the order of the status events.                           *)
(***************************************************************************)
\* C26: with MAX_CONCURRENCY = 1, the status events of successful
\* navigate / click / click_xy requests are in the queue of their session
\* in the order in which the requests held the permit of _CONC_SEM.
\* (Refuted: _queue_event is called after the permit is released.)
C26_EventsInPermitOrder ==
  \A i \in DOMAIN heap : \A j, k \in DOMAIN heap[i].items :
    j < k => handler[heap[i].items[j]].turn < handler[heap[i].items[k]].turn

====
